---- MODULE Spec2Model ----
(***************************************************************************)
(* State-machine model of the chat UI of nautobot_mcp                      *)
(* (services/chat-ui/app.py): the conversation store (conversation         *)
(* documents and archives in MongoDB), the session cookie of each client,  *)
(* and the chat handler with its multi-round function-calling loop.        *)
(*                                                                         *)
(* A chat request is split at its external calls (store read, completion   *)
(* API call, tool dispatch, store write), so that other requests can       *)
(* interleave exactly where the server allows it.  index, clear_chat and   *)
(* new_chat are one action each.                                           *)
(*                                                                         *)
(* Timestamps (datetime.now().isoformat()) and the timing block of the     *)
(* response are left out of turns, tool invocations and responses: no      *)
(* branch of the code reads them.                                          *)
(***************************************************************************)
EXTENDS Naturals, Sequences, FiniteSets, TLC

VARIABLES
    conversations_col,      \* the 'conversations' collection, in insertion order
    conversation_archives,  \* the 'conversation_archives' collection
    n_archives,             \* documents inserted into conversation_archives so far
    cookie,                 \* per client: the session_id cookie, or NoCookie
    use_openai,             \* OPENAI_API_KEY set and the openai package importable
    req,                    \* per request slot: the locals of one chat() call
    call_history,           \* MCPClient.call_history: the requests sent to the tool server
    n_requests,             \* requests received so far
    clock,                  \* seconds in which a session id was generated so far
    n_calls,                \* tool calls requested by the model so far
    n_variations            \* off-nominal answers of the environment so far

vars == <<conversations_col, conversation_archives, n_archives, cookie, use_openai, req,
          call_history, n_requests, clock, n_calls, n_variations>>

-----------------------------------------------------------------------------
(* Bounds of the model *)

\* requests (index, chat, clear, new-chat) per run
MaxRequests == 3
\* answers of the environment per run that are not the nominal one: a completion
\* that raises or is empty, a list of tool calls other than NominalBatch, an error
\* of the tool server, a failed store write
MaxVariations == 2

\* request slots that may be in flight at once
Reqs == {1, 2}
Clients == {"c1"}
\* f"session_{timestamp}_{pid}" is modelled by the number of the second it was
\* generated in, counting the seconds in which an id was generated: an id
\* generated now is the latest one (same second) or the next one
generated_ids == {k \in {clock, clock + 1} : k >= 1}
NoCookie == 0
Prompts == {"hi"}
\* content of a completion: "" stands for None or the empty string, both falsy in Python
Contents == {"", "answer"}
\* str(e) of exceptions raised by the completion API
ApiErrors == {"api down"}

-----------------------------------------------------------------------------
(* Python helpers *)

\* dict.get(key, default)
Get(m, k, d) == IF k \in DOMAIN m THEN m[k] ELSE d

\* seq[-n:]
LastN(s, n) == IF Len(s) > n THEN SubSeq(s, Len(s) - n + 1, Len(s)) ELSE s

\* JSON values that are not mappings are tagged; every other record is a mapping
JsonList == [list_items |-> <<>>]
is_dict(v) == "list_items" \notin DOMAIN v

\* json.dumps
json_dumps(v) == [json |-> v]

\* the argument strings the model may send, and json.loads of each
ArgBrcn == "{\"location_name\": \"BRCN\"}"
ArgBrcnTable == "{\"location_name\": \"BRCN\", \"format\": \"table\"}"
ArgBad == "{location_name: BRCN"
ArgList == "[]"
ArgNone == ""

\* a parse that keeps the text of arguments that are not JSON
parse_arguments_raw(a) ==
    CASE a = ArgBrcn -> [location_name |-> "BRCN"]
      [] a = ArgBrcnTable -> [location_name |-> "BRCN", format |-> "table"]
      [] a = ArgList -> JsonList
      [] a = ArgNone -> <<>>
      [] OTHER -> [raw |-> a]

\* json.loads(fn.arguments or '{}') with the except branch of chat(): args = {}
parse_arguments(a) ==
    CASE a = ArgBrcn -> [location_name |-> "BRCN"]
      [] a = ArgBrcnTable -> [location_name |-> "BRCN", format |-> "table"]
      [] a = ArgList -> JsonList
      [] a = ArgNone -> <<>>
      [] OTHER -> <<>>

-----------------------------------------------------------------------------
(* The conversation store *)

\* find_one({'session_id': sid}): index of the first matching document, 0 when none
find_one(col, sid) ==
    IF \E i \in 1..Len(col) : col[i].session_id = sid
    THEN CHOOSE i \in 1..Len(col) :
            /\ col[i].session_id = sid
            /\ \A j \in 1..(i - 1) : col[j].session_id # sid
    ELSE 0

\* update_one({'session_id': sid}, {'$set': {'messages': m, 'tools': t}}):
\* the first matching document is updated; no match changes nothing
update_one(col, sid, m, t) ==
    LET i == find_one(col, sid) IN
    IF i = 0 THEN col
    ELSE [col EXCEPT ![i] = [@ EXCEPT !.messages = m, !.tools = t]]

new_conversation(sid) == [session_id |-> sid, messages |-> <<>>, tools |-> <<>>]

RECURSIVE first_user_text(_)
first_user_text(messages) ==
    IF messages = <<>> THEN "Conversation"
    ELSE IF Head(messages).role = "user" THEN Head(messages).text
    ELSE first_user_text(Tail(messages))

\* _generate_conversation_title; the prompts of the model are shorter than 50 characters
generate_conversation_title(messages) ==
    IF messages = <<>> THEN "Empty Conversation" ELSE first_user_text(messages)

archive_entry(sid, doc) ==
    [session_id |-> sid,
     messages |-> doc.messages,
     tools |-> doc.tools,
     title |-> generate_conversation_title(doc.messages),
     message_count |-> Len(doc.messages),
     first_message |-> IF doc.messages # <<>> THEN doc.messages[1].text ELSE ""]

\* if conv_doc and conv_doc.get('messages'): the condition of the archive step
has_messages(col, sid) ==
    find_one(col, sid) # 0 /\ col[find_one(col, sid)].messages # <<>>

\* insert_one gives the document its _id: ObjectIds are generated in
\* increasing order and never twice
insert_one(col, doc, inserted_so_far) ==
    Append(col, [_id |-> inserted_so_far + 1] @@ doc)

\* an archive step that only asks whether the conversation exists
archive_current_of_any(archives, col, sid) ==
    IF find_one(col, sid) # 0
    THEN insert_one(archives, archive_entry(sid, col[find_one(col, sid)]), n_archives)
    ELSE archives

\* the archive step shared by clear_chat and new_chat:
\* if conv_doc and conv_doc.get('messages'): insert_one(archive_entry)
archive_current(archives, col, sid) ==
    IF has_messages(col, sid)
    THEN insert_one(archives, archive_entry(sid, col[find_one(col, sid)]), n_archives)
    ELSE archives

\* the number of archive documents inserted, after the archive step
archives_inserted(col, sid) ==
    IF has_messages(col, sid) THEN n_archives + 1 ELSE n_archives

-----------------------------------------------------------------------------
(* Tools and the dispatcher *)

PrefixesTool == "get_prefixes_by_location_enhanced"
\* advertised in the system prompt, absent from execute_tool_with_status
LocationsTool == "get_locations"

\* the names execute_tool_with_status sends to the tool server
hard_coded_tools ==
    {"get_prefixes_by_location_enhanced", "get_devices_by_location",
     "get_devices_by_location_and_role", "get_interfaces_by_device",
     "get_circuits_by_location"}

\* what invoke_tool_on_server may return: the server's {"result": payload},
\* or {"error": str(e)} for a request that failed
PrefixPayload == [success |-> TRUE, count |-> 1, data |-> <<"10.0.0.0/24">>]
DispatchResults == {[result |-> PrefixPayload], [error |-> "timeout"]}

AttributeErrorText == "'list' object has no attribute 'get'"

\* a dispatch that sends every tool the model names to the tool server
execute_any_tool(tool_name, args, from_server) ==
    IF is_dict(args)
    THEN [raised |-> FALSE, dispatched |-> TRUE, api_result |-> from_server]
    ELSE [raised |-> TRUE, dispatched |-> FALSE, error |-> AttributeErrorText]

\* execute_tool_with_status: dispatched says whether invoke_tool_on_server ran,
\* raised whether args.get(...) raised before it
execute_tool_with_status(tool_name, args, from_server) ==
    IF tool_name \in hard_coded_tools
    THEN IF is_dict(args)
         THEN [raised |-> FALSE, dispatched |-> TRUE, api_result |-> from_server]
         ELSE [raised |-> TRUE, dispatched |-> FALSE, error |-> AttributeErrorText]
    ELSE [raised |-> FALSE, dispatched |-> FALSE,
          api_result |-> [error |-> "Unknown tool " \o tool_name]]

\* tool_result = api_result.get('result', api_result)
unwrap_result(api_result) == Get(api_result, "result", api_result)

\* Python truthiness of a tool result: an empty mapping is falsy
truthy(v) == v # <<>>

-----------------------------------------------------------------------------
(* Building the model input from history *)

SystemPrompt == "You are a helpful general-purpose assistant ..."
DirectFallback == "I don't have any specific tools to help with that request. ..."
NotConfiguredText == "OpenAI is not configured. ..."
ApologyText == "I apologize, but I encountered an issue processing your request. Please try again."
PyNone == "<None>"

\* f"Error processing request: {str(e)}"
error_response_text(e) == "Error processing request: " \o e
\* text.startswith("Error processing request:")
is_error_text(text) ==
    text \in {error_response_text(e) : e \in ApiErrors \cup {AttributeErrorText}}

\* tool_name[:15]
first15(tool_name) ==
    CASE tool_name = PrefixesTool -> "get_prefixes_by"
      [] tool_name = LocationsTool -> "get_locations"
      [] OTHER -> tool_name

\* f"call_{tool_name[:15]}_{abs(hash(json.dumps(tool_args, sort_keys=True))) % 1000:03d}"
synthetic_call_id(tool_name, tool_args) ==
    [call |-> first15(tool_name), hash |-> json_dumps(tool_args)]

\* the first entry of tool_history with the same tool and args; its result, or None
RECURSIVE find_tool_result(_, _, _)
find_tool_result(tool_history, tool_name, tool_args) ==
    IF tool_history = <<>> THEN <<>>
    ELSE IF Head(tool_history).tool = tool_name /\ Head(tool_history).args = tool_args
    THEN Head(tool_history).result
    ELSE find_tool_result(Tail(tool_history), tool_name, tool_args)

plain_assistant(text) == <<[role |-> "assistant", content |-> text]>>

\* a translation that replays no tool use: every assistant turn as plain text
translate_turn_as_text(turn, tool_history) ==
    IF turn.role = "assistant" /\ is_error_text(turn.text) THEN <<>>
    ELSE IF turn.role = "user" THEN <<[role |-> "user", content |-> turn.text]>>
    ELSE plain_assistant(turn.text)

\* the body of "for turn in recent_history": the messages one turn contributes
translate_turn(turn, tool_history) ==
    IF turn.role = "assistant" /\ is_error_text(turn.text) THEN <<>>
    ELSE IF turn.role = "user" THEN <<[role |-> "user", content |-> turn.text]>>
    ELSE IF Get(turn, "citations", <<>>) # <<>> /\ Len(turn.citations) = 1
    THEN LET citation == turn.citations[1]
             tool_result == find_tool_result(tool_history, citation.tool, citation.args)
             tool_call_id == synthetic_call_id(citation.tool, citation.args)
         IN IF truthy(tool_result)
            THEN << [role |-> "assistant", content |-> turn.text,
                     tool_calls |-> << [id |-> tool_call_id, name |-> citation.tool,
                                        arguments |-> json_dumps(citation.args)] >>],
                    [role |-> "tool", content |-> json_dumps(tool_result),
                     tool_call_id |-> tool_call_id] >>
            ELSE plain_assistant(turn.text)
    ELSE plain_assistant(turn.text)

RECURSIVE translate_history(_, _)
translate_history(turns, tool_history) ==
    IF turns = <<>> THEN <<>>
    ELSE translate_turn(Head(turns), tool_history)
            \o translate_history(Tail(turns), tool_history)

\* conversation_history = chat_history[-25:]; recent_history = its last 5
\* (chat_history already ends with the new user turn)
recent_history(chat_history) == LastN(LastN(chat_history, 25), 5)

\* messages as sent to the first completion call
build_messages(chat_history, tool_history, prompt) ==
    <<[role |-> "system", content |-> SystemPrompt]>>
        \o translate_history(recent_history(chat_history), tool_history)
        \o <<[role |-> "user", content |-> prompt]>>

-----------------------------------------------------------------------------
(* Request slots *)

IdleReq == [pc |-> "idle"]

Init ==
    /\ conversations_col = <<>>
    /\ conversation_archives = <<>>
    /\ n_archives = 0
    /\ cookie = [c \in Clients |-> NoCookie]
    /\ use_openai \in BOOLEAN
    /\ req = [r \in Reqs |-> IdleReq]
    /\ call_history = <<>>
    /\ n_requests = 0
    /\ clock = 0
    /\ n_calls = 0
    /\ n_variations = 0

\* GET /: get or create the conversation of the client's session
index(c) ==
    /\ n_requests < MaxRequests
    /\ \E fresh \in IF cookie[c] = NoCookie THEN generated_ids ELSE {cookie[c]} :
        LET session_id == IF cookie[c] = NoCookie THEN fresh ELSE cookie[c] IN
        /\ conversations_col' =
              IF find_one(conversations_col, session_id) = 0
              THEN Append(conversations_col, new_conversation(session_id))
              ELSE conversations_col
        /\ cookie' = [cookie EXCEPT ![c] = session_id]
        /\ clock' = IF session_id > clock THEN session_id ELSE clock
    /\ n_requests' = n_requests + 1
    /\ UNCHANGED <<conversation_archives, n_archives, use_openai, req, call_history,
                   n_calls, n_variations>>

\* GET /api/clear
clear_chat(c) ==
    /\ n_requests < MaxRequests
    /\ cookie[c] # NoCookie
    /\ conversation_archives' =
          archive_current(conversation_archives, conversations_col, cookie[c])
    /\ n_archives' = archives_inserted(conversations_col, cookie[c])
    /\ conversations_col' = update_one(conversations_col, cookie[c], <<>>, <<>>)
    /\ n_requests' = n_requests + 1
    /\ UNCHANGED <<cookie, use_openai, req, call_history, clock, n_calls,
                   n_variations>>

\* GET /api/new-chat
new_chat(c) ==
    /\ n_requests < MaxRequests
    /\ cookie[c] # NoCookie
    /\ conversation_archives' =
          archive_current(conversation_archives, conversations_col, cookie[c])
    /\ n_archives' = archives_inserted(conversations_col, cookie[c])
    /\ \E new_session_id \in generated_ids :
        /\ conversations_col' =
              Append(conversations_col, new_conversation(new_session_id))
        /\ cookie' = [cookie EXCEPT ![c] = new_session_id]
        /\ clock' = IF new_session_id > clock THEN new_session_id ELSE clock
    /\ n_requests' = n_requests + 1
    /\ UNCHANGED <<use_openai, req, call_history, n_calls, n_variations>>

-----------------------------------------------------------------------------
(* POST /api/chat *)

\* a loop bound that is off by one
max_tool_rounds_plus_one == 5 + 1

\* max_tool_rounds = 5  # Prevent infinite loops
max_tool_rounds == 5

\* a tool call as the model requests it, before it gets its id
NominalCall == [name |-> PrefixesTool, arguments |-> ArgBrcn]
TableCall == [name |-> PrefixesTool, arguments |-> ArgBrcnTable]
BadJsonCall == [name |-> PrefixesTool, arguments |-> ArgBad]
ListArgsCall == [name |-> PrefixesTool, arguments |-> ArgList]
UnknownToolCall == [name |-> LocationsTool, arguments |-> ArgNone]

\* the nominal answers of the environment: one prefixes call per round, a
\* non-empty text, the server's payload, a store write that succeeds
NominalBatch == <<NominalCall>>
NominalContent == "answer"
NominalResult == [result |-> PrefixPayload]

\* the lists of tool calls the model answers with in the general specification
CoreBatches ==
    { NominalBatch, <<NominalCall, NominalCall>>, <<ListArgsCall>>,
      <<NominalCall, ListArgsCall>> }

\* the lists of tool calls of a model that asks for one or two calls per round
LoopBatches == { NominalBatch, <<NominalCall, NominalCall>> }

\* an answer of the environment is within the run's budget of variations
cost(answer, nominal) == IF answer = nominal THEN 0 ELSE 1
affordable(answer, nominal) == n_variations + cost(answer, nominal) <= MaxVariations

\* the model numbers its calls: ids are unique over the run
with_ids(batch, base) ==
    [j \in 1..Len(batch) |->
        [id |-> [call |-> base + j], name |-> batch[j].name,
         arguments |-> batch[j].arguments]]

\* the while condition: msg.tool_calls and tool_call_round <= max_tool_rounds
loop_continues(tool_calls, tool_call_round) ==
    tool_calls # <<>> /\ tool_call_round <= max_tool_rounds

\* the record appended to tool_history for one executed call
persisted_entry(name, args, tool_result, tool_call_round, tool_index) ==
    [tool |-> name, args |-> args, result |-> tool_result,
     round |-> tool_call_round, tool_index |-> tool_index]

\* a citation that loses the round of its call
citation_entry_round_one(name, args, tool_call_round) ==
    [tool |-> name, args |-> args, round |-> 1]

\* the record appended to citations for one executed call
citation_entry(name, args, tool_call_round) ==
    [tool |-> name, args |-> args, round |-> tool_call_round]

\* the first entry of tool_history for the prefixes tool at location_name, or None
RECURSIVE find_prefix_entry(_, _)
find_prefix_entry(tool_history, location_name) ==
    IF tool_history = <<>> THEN <<>>
    ELSE IF /\ Head(tool_history).tool = PrefixesTool
            /\ Get(Head(tool_history).args, "location_name", PyNone) = location_name
    THEN Head(tool_history)
    ELSE find_prefix_entry(Tail(tool_history), location_name)

\* response_data = None
NoPayload == <<>>

\* the payload built from the stored result of the citation that stops the scan
payload_for(citation, tool_history) ==
    LET format_type == Get(citation.args, "format", "json")
        entry == find_prefix_entry(tool_history,
                                   Get(citation.args, "location_name", ""))
        tool_result == Get(entry, "result", <<>>)
        success == Get(tool_result, "success", FALSE)
    IN IF entry = <<>> \/ ~success THEN NoPayload
       ELSE IF format_type = "csv"
       THEN [format |-> "csv", data |-> Get(tool_result, "data", <<>>),
             message |-> "Data available for CSV export"]
       ELSE IF format_type = "table"
       THEN [format |-> "table", data |-> Get(tool_result, "data", <<>>)]
       ELSE [format |-> "dataframe", analysis |-> Get(tool_result, "summary", <<>>)]

\* "for citation in citations": the scan stops at the first citation of the
\* prefixes tool that asks for csv, table or dataframe
RECURSIVE build_response_data(_, _)
build_response_data(citations, tool_history) ==
    IF citations = <<>> THEN NoPayload
    ELSE IF /\ Head(citations).tool = PrefixesTool
            /\ Get(Head(citations).args, "format", "json") \in {"csv", "table", "dataframe"}
    THEN payload_for(Head(citations), tool_history)
    ELSE build_response_data(Tail(citations), tool_history)

\* "Ensure assistant_response is not None"
ensure_response(assistant_response, openai) ==
    IF assistant_response = PyNone
    THEN IF ~openai THEN NotConfiguredText ELSE ApologyText
    ELSE assistant_response

\* "If we didn't get a response yet, get the final one": if not assistant_response
needs_final_call(assistant_response) == assistant_response \in {PyNone, ""}

\* one entry of the log of completion API calls of a request
completion(tools_enabled, outcome, content) ==
    [tools |-> tools_enabled, outcome |-> outcome, content |-> content]

\* the request validated, the conversation read, the user turn appended and,
\* with a model configured, the messages built
chat_start(r, c, prompt) ==
    /\ req[r].pc \in {"idle", "done"}
    /\ n_requests < MaxRequests
    /\ cookie[c] # NoCookie
    /\ find_one(conversations_col, cookie[c]) # 0
    /\ LET conv_doc == conversations_col[find_one(conversations_col, cookie[c])]
           chat_history == Append(conv_doc.messages, [role |-> "user", text |-> prompt])
           tool_history == conv_doc.tools
       IN req' = [req EXCEPT ![r] =
            [pc |-> IF use_openai THEN "first_call" ELSE "persist",
             session_id |-> cookie[c],
             prompt |-> prompt,
             chat_history |-> chat_history,
             tool_history |-> tool_history,
             messages |-> IF use_openai
                          THEN build_messages(chat_history, tool_history, prompt)
                          ELSE <<>>,
             citations |-> <<>>,
             assistant_response |-> PyNone,
             tool_calls |-> <<>>,
             tool_call_round |-> 0,
             i |-> 0,
             completions |-> <<>>,
             error |-> PyNone,
             loaded_messages |-> Len(conv_doc.messages),
             loaded_tools |-> Len(conv_doc.tools)]]
    /\ n_requests' = n_requests + 1
    /\ UNCHANGED <<conversations_col, conversation_archives, n_archives, cookie, use_openai,
                   call_history, clock, n_calls, n_variations>>

\* a completion call that raises: control passes to the except branch
completion_raises(r, tools_enabled, e) ==
    /\ affordable(e, NominalContent)
    /\ req' = [req EXCEPT ![r].pc = "fail",
                          ![r].error = e,
                          ![r].completions =
                              Append(@, completion(tools_enabled, "raise", e))]
    /\ n_variations' = n_variations + 1
    /\ UNCHANGED n_calls

\* the model answers with tool calls: the assistant message is appended
\* (the content that comes with tool calls is empty)
tool_calls_requested(r, batch, round) ==
    LET calls == with_ids(batch, n_calls) IN
    /\ affordable(batch, NominalBatch)
    /\ req' = [req EXCEPT
            ![r].pc = "exec",
            ![r].messages = Append(@, [role |-> "assistant", content |-> "",
                                       tool_calls |-> calls]),
            ![r].tool_calls = calls,
            ![r].tool_call_round = round,
            ![r].i = 1,
            ![r].completions = Append(@, completion(TRUE, "tool_calls", ""))]
    /\ n_calls' = n_calls + Len(batch)
    /\ n_variations' = n_variations + cost(batch, NominalBatch)

\* first = client.chat.completions.create(..., tools=tools, tool_choice="auto")
first_completion(r, batches) ==
    /\ req[r].pc = "first_call"
    /\ \/ \E e \in ApiErrors : completion_raises(r, TRUE, e)
       \/ \E batch \in batches : tool_calls_requested(r, batch, 1)
       \/ \E content \in Contents :
            /\ affordable(content, NominalContent)
            /\ req' = [req EXCEPT
                    ![r].pc = "persist",
                    ![r].assistant_response =
                        IF content # "" THEN content ELSE DirectFallback,
                    ![r].completions = Append(@, completion(TRUE, "content", content))]
            /\ n_variations' = n_variations + cost(content, NominalContent)
            /\ UNCHANGED n_calls
    /\ UNCHANGED <<conversations_col, conversation_archives, n_archives, cookie, use_openai,
                   call_history, n_requests, clock>>

\* one pass of "for i, tc in enumerate(msg.tool_calls)"
execute_tool(r, from_server) ==
    /\ req[r].pc = "exec"
    /\ LET q == req[r]
           tc == q.tool_calls[q.i]
           args == parse_arguments(tc.arguments)
           done == execute_tool_with_status(tc.name, args, from_server)
       IN IF done.raised
          THEN /\ from_server = NominalResult
               /\ req' = [req EXCEPT ![r].pc = "fail", ![r].error = done.error]
               /\ UNCHANGED <<call_history, n_variations>>
          ELSE LET tool_result == unwrap_result(done.api_result) IN
               /\ IF done.dispatched
                  THEN /\ affordable(from_server, NominalResult)
                       /\ n_variations' = n_variations + cost(from_server, NominalResult)
                  ELSE /\ from_server = NominalResult
                       /\ UNCHANGED n_variations
               /\ req' = [req EXCEPT
                    ![r].tool_history =
                        Append(@, persisted_entry(tc.name, args, tool_result,
                                                  q.tool_call_round, q.i)),
                    ![r].citations =
                        Append(@, citation_entry(tc.name, args, q.tool_call_round)),
                    ![r].messages =
                        Append(@, [role |-> "tool", tool_call_id |-> tc.id,
                                   content |-> json_dumps(tool_result)]),
                    ![r].i = q.i + 1,
                    ![r].pc = IF q.i < Len(q.tool_calls) THEN "exec"
                              ELSE IF q.tool_call_round < max_tool_rounds
                              THEN "follow_up" ELSE "final_max"]
               /\ call_history' =
                    IF done.dispatched
                    THEN Append(call_history,
                                [tool_name |-> tc.name, args |-> args,
                                 response |-> done.api_result])
                    ELSE call_history
    /\ UNCHANGED <<conversations_col, conversation_archives, n_archives, cookie, use_openai,
                   n_requests, clock, n_calls>>

\* the loop's last assignment of assistant_response, then
\* "if not assistant_response": one more completion call
after_loop(r, tools_enabled, content) ==
    /\ affordable(content, NominalContent)
    /\ req' = [req EXCEPT
        ![r].pc = IF needs_final_call(content) THEN "final" ELSE "persist",
        ![r].assistant_response = content,
        ![r].completions = Append(@, completion(tools_enabled, "content", content))]
    /\ n_variations' = n_variations + cost(content, NominalContent)
    /\ UNCHANGED n_calls

\* follow_up = client.chat.completions.create(..., tools=tools, tool_choice="auto")
follow_up_completion(r, batches) ==
    /\ req[r].pc = "follow_up"
    /\ \/ \E e \in ApiErrors : completion_raises(r, TRUE, e)
       \/ \E batch \in batches :
            tool_calls_requested(r, batch, req[r].tool_call_round + 1)
       \/ \E content \in Contents : after_loop(r, TRUE, content)
    /\ UNCHANGED <<conversations_col, conversation_archives, n_archives, cookie, use_openai,
                   call_history, n_requests, clock>>

\* "Max rounds reached": final_response = client.chat.completions.create(model, messages)
max_rounds_completion(r) ==
    /\ req[r].pc = "final_max"
    /\ \/ \E e \in ApiErrors : completion_raises(r, FALSE, e)
       \/ \E content \in Contents : after_loop(r, FALSE, content)
    /\ UNCHANGED <<conversations_col, conversation_archives, n_archives, cookie, use_openai,
                   call_history, n_requests, clock>>

\* final = client.chat.completions.create(model, messages)
final_completion(r) ==
    /\ req[r].pc = "final"
    /\ \/ \E e \in ApiErrors : completion_raises(r, FALSE, e)
       \/ \E content \in Contents :
            /\ affordable(content, NominalContent)
            /\ req' = [req EXCEPT
                ![r].pc = "persist",
                ![r].assistant_response = content,
                ![r].completions = Append(@, completion(FALSE, "content", content))]
            /\ n_variations' = n_variations + cost(content, NominalContent)
            /\ UNCHANGED n_calls
    /\ UNCHANGED <<conversations_col, conversation_archives, n_archives, cookie, use_openai,
                   call_history, n_requests, clock>>

\* what stays of a request after it returned
returned(q, response) ==
    [pc |-> "done", session_id |-> q.session_id, prompt |-> q.prompt,
     response |-> response, tool_history |-> q.tool_history,
     completions |-> q.completions,
     loaded_messages |-> q.loaded_messages, loaded_tools |-> q.loaded_tools]

\* a store write that comes before the last turn is appended
persist_before_append(col, sid, chat_history, tool_history, write_ok) ==
    IF write_ok
    THEN update_one(col, sid, SubSeq(chat_history, 1, Len(chat_history) - 1),
                    tool_history)
    ELSE col

\* a store write that appends the turns of the request to the stored arrays
persist_appending(col, sid, chat_history, tool_history, write_ok) ==
    LET i == find_one(col, sid)
        turns == SubSeq(chat_history, Len(chat_history) - 1, Len(chat_history))
    IN IF write_ok /\ i # 0
       THEN update_one(col, sid, col[i].messages \o turns, col[i].tools \o tool_history)
       ELSE col

\* a store write of the turns of the request alone, without the turns loaded
persist_new_turns(col, sid, chat_history, tool_history, write_ok) ==
    IF write_ok
    THEN update_one(col, sid, LastN(chat_history, 2), tool_history)
    ELSE col

\* a store write that is given up when the stored messages are no longer the
\* ones the request read
persist_checked(col, sid, chat_history, tool_history, write_ok) ==
    LET i == find_one(col, sid) IN
    IF /\ write_ok
       /\ i # 0
       /\ col[i].messages = SubSeq(chat_history, 1, Len(chat_history) - 2)
    THEN update_one(col, sid, chat_history, tool_history)
    ELSE col

\* the store write of chat(): an exception of update_one is logged and swallowed
persist(col, sid, chat_history, tool_history, write_ok) ==
    IF write_ok THEN update_one(col, sid, chat_history, tool_history) ELSE col

\* an end of the try block that lets the failure of the store write out: the
\* caller gets an error response
answer_unless_write_fails(r, write_ok) ==
    /\ req[r].pc = "persist"
    /\ affordable(write_ok, TRUE)
    /\ n_variations' = n_variations + cost(write_ok, TRUE)
    /\ LET q == req[r]
           assistant_response == ensure_response(q.assistant_response, use_openai)
           chat_history ==
               Append(q.chat_history,
                      [role |-> "assistant", text |-> assistant_response,
                       citations |-> q.citations])
       IN /\ conversations_col' =
                persist(conversations_col, q.session_id, chat_history,
                        q.tool_history, write_ok)
          /\ req' = [req EXCEPT ![r] =
                returned(q, IF write_ok
                            THEN [success |-> TRUE, response |-> assistant_response,
                                  citations |-> q.citations,
                                  data |-> build_response_data(q.citations, q.tool_history),
                                  chat_history |-> chat_history]
                            ELSE [success |-> FALSE,
                                  error |-> "Internal Server Error",
                                  chat_history |-> q.chat_history])]
    /\ UNCHANGED <<conversation_archives, n_archives, cookie, use_openai, call_history,
                   n_requests, clock, n_calls>>

\* an end of the try block that asks the tool server again for the data of
\* the payload it builds
answer_refetching(r, write_ok) ==
    /\ req[r].pc = "persist"
    /\ affordable(write_ok, TRUE)
    /\ n_variations' = n_variations + cost(write_ok, TRUE)
    /\ LET q == req[r]
           response_data == build_response_data(q.citations, q.tool_history)
           assistant_response == ensure_response(q.assistant_response, use_openai)
           chat_history ==
               Append(q.chat_history,
                      [role |-> "assistant", text |-> assistant_response,
                       citations |-> q.citations])
       IN /\ conversations_col' =
                persist(conversations_col, q.session_id, chat_history,
                        q.tool_history, write_ok)
          /\ call_history' =
                IF response_data # NoPayload
                THEN Append(call_history,
                            [tool_name |-> PrefixesTool, args |-> <<>>,
                             response |-> NominalResult])
                ELSE call_history
          /\ req' = [req EXCEPT ![r] =
                returned(q, [success |-> TRUE, response |-> assistant_response,
                             citations |-> q.citations, data |-> response_data,
                             chat_history |-> chat_history])]
    /\ UNCHANGED <<conversation_archives, n_archives, cookie, use_openai,
                   n_requests, clock, n_calls>>

\* the end of the try block: response_data, the assistant turn, the store
\* write and the success response
answer(r, write_ok) ==
    /\ req[r].pc = "persist"
    /\ affordable(write_ok, TRUE)
    /\ n_variations' = n_variations + cost(write_ok, TRUE)
    /\ LET q == req[r]
           response_data == build_response_data(q.citations, q.tool_history)
           assistant_response == ensure_response(q.assistant_response, use_openai)
           chat_history ==
               Append(q.chat_history,
                      [role |-> "assistant", text |-> assistant_response,
                       citations |-> q.citations])
       IN /\ conversations_col' =
                persist(conversations_col, q.session_id, chat_history,
                        q.tool_history, write_ok)
          /\ req' = [req EXCEPT ![r] =
                returned(q, [success |-> TRUE, response |-> assistant_response,
                             citations |-> q.citations, data |-> response_data,
                             chat_history |-> chat_history])]
    /\ UNCHANGED <<conversation_archives, n_archives, cookie, use_openai, call_history,
                   n_requests, clock, n_calls>>

\* except Exception as e: the error turn, the store write and the error response
handle_exception(r, write_ok) ==
    /\ req[r].pc = "fail"
    /\ affordable(write_ok, TRUE)
    /\ n_variations' = n_variations + cost(write_ok, TRUE)
    /\ LET q == req[r]
           error_response == error_response_text(q.error)
           chat_history ==
               Append(q.chat_history,
                      [role |-> "assistant", text |-> error_response,
                       citations |-> <<>>])
       IN /\ conversations_col' =
                persist(conversations_col, q.session_id, chat_history,
                        q.tool_history, write_ok)
          /\ req' = [req EXCEPT ![r] =
                returned(q, [success |-> FALSE, error |-> error_response,
                             chat_history |-> chat_history])]
    /\ UNCHANGED <<conversation_archives, n_archives, cookie, use_openai, call_history,
                   n_requests, clock, n_calls>>

\* no chat request is in flight
Quiet == \A r \in Reqs : req[r].pc \in {"idle", "done"}

\* the request slots of a server that serves one chat request at a time
Sequential == {1}

\* The general specification serves one request at a time: index, clear and
\* new-chat requests arrive between chat requests.
Next ==
    \/ \E c \in Clients : Quiet /\ index(c)
    \/ \E c \in Clients : Quiet /\ clear_chat(c)
    \/ \E c \in Clients : Quiet /\ new_chat(c)
    \/ \E r \in Sequential, c \in Clients, prompt \in Prompts : chat_start(r, c, prompt)
    \/ \E r \in Sequential : first_completion(r, CoreBatches)
    \/ \E r \in Sequential, from_server \in DispatchResults : execute_tool(r, from_server)
    \/ \E r \in Sequential : follow_up_completion(r, CoreBatches)
    \/ \E r \in Sequential : max_rounds_completion(r)
    \/ \E r \in Sequential : final_completion(r)
    \/ \E r \in Sequential, write_ok \in BOOLEAN : answer(r, write_ok)
    \/ \E r \in Sequential, write_ok \in BOOLEAN : handle_exception(r, write_ok)

Spec == Init /\ [][Next]_vars

InFlight == {"first_call", "exec", "follow_up", "final_max", "final", "persist", "fail"}

Last(seq) == seq[Len(seq)]

\* the ToolInvocations a request appended to the tool log it loaded
NewEntries(q) == SubSeq(q.tool_history, q.loaded_tools + 1, Len(q.tool_history))

\* the turns a request loaded from the store
LoadedTurns(q, chat_history) == SubSeq(chat_history, 1, q.loaded_messages)

\* the messages of the conversation document a session id finds
PersistedMessages(sid) == conversations_col[find_one(conversations_col, sid)].messages
PersistedTools(sid) == conversations_col[find_one(conversations_col, sid)].tools

\* every step of a chat request after its start
ChatProgress(r) ==
    \/ first_completion(r, CoreBatches)
    \/ \E from_server \in DispatchResults : execute_tool(r, from_server)
    \/ follow_up_completion(r, CoreBatches)
    \/ max_rounds_completion(r)
    \/ final_completion(r)
    \/ \E write_ok \in BOOLEAN : answer(r, write_ok)
    \/ \E write_ok \in BOOLEAN : handle_exception(r, write_ok)

\* The last two requests of a run, both chat turns of one session: the requests
\* before them were index requests of the client, which created the conversation
\* of session 1 and left it empty.
InitChat ==
    /\ conversations_col = <<new_conversation(1)>>
    /\ conversation_archives = <<>>
    /\ n_archives = 0
    /\ cookie = [c \in Clients |-> 1]
    /\ use_openai \in BOOLEAN
    /\ req = [r \in Reqs |-> IdleReq]
    /\ call_history = <<>>
    /\ n_requests = MaxRequests - 2
    /\ clock = 1
    /\ n_calls = 0
    /\ n_variations = 0

NextChat ==
    \/ \E r \in Sequential, c \in Clients, prompt \in Prompts : chat_start(r, c, prompt)
    \/ \E r \in Sequential : first_completion(r, LoopBatches)
    \/ \E r \in Sequential, from_server \in DispatchResults : execute_tool(r, from_server)
    \/ \E r \in Sequential : follow_up_completion(r, LoopBatches)
    \/ \E r \in Sequential : max_rounds_completion(r)
    \/ \E r \in Sequential : final_completion(r)
    \/ \E r \in Sequential, write_ok \in BOOLEAN : answer(r, write_ok)
    \/ \E r \in Sequential, write_ok \in BOOLEAN : handle_exception(r, write_ok)

\* The handler of a chat request runs on once it was called: each external call
\* it waits for (completion API, tool server, store) returns or raises.
ChatSpec ==
    InitChat /\ [][NextChat]_vars /\ \A r \in Sequential : WF_vars(ChatProgress(r))

-----------------------------------------------------------------------------
(* Vocabulary of the properties *)

\* the request returned a success response after every completion call made
\* with tools enabled had answered with tool calls
AlwaysRequestedTools(q) ==
    /\ q.pc = "done"
    /\ q.response.success
    /\ q.completions # <<>>
    /\ \A k \in 1..Len(q.completions) :
          q.completions[k].tools => q.completions[k].outcome = "tool_calls"

\* the completion calls of a request made with tools disabled
ToolsDisabledCalls(q) == { k \in 1..Len(q.completions) : ~q.completions[k].tools }

-----------------------------------------------------------------------------
(* C1: the agent loop terminates, and executes tool calls in rounds 1..5 only *)

LongestBatch ==
    CHOOSE n \in { Len(b) : b \in CoreBatches } : \A b \in CoreBatches : Len(b) <= n

\* a bound on the steps a request has left: every step of a request lowers it
StepsLeft(q) ==
    LET per_round == LongestBatch + 2
        rounds_left == IF q.tool_call_round <= max_tool_rounds
                       THEN max_tool_rounds - q.tool_call_round ELSE 0
    IN CASE q.pc \in {"idle", "done"} -> 0
         [] q.pc \in {"persist", "fail"} -> 1
         [] q.pc = "final" -> 2
         [] q.pc = "final_max" -> 3
         [] q.pc \in {"follow_up", "first_call"} -> rounds_left * per_round + 3
         [] q.pc = "exec" ->
                rounds_left * per_round + (Len(q.tool_calls) - q.i + 1) + 4

RoundsWithinBound(q) ==
    /\ q.tool_call_round <= 5
    /\ \A k \in 1..Len(NewEntries(q)) : NewEntries(q)[k].round \in 1..5
    /\ \A k \in 1..Len(q.citations) : q.citations[k].round \in 1..5

C1_State ==
    /\ \A r \in Sequential :
        LET q == req[r] IN
        /\ q.pc \in InFlight => RoundsWithinBound(q) /\ ENABLED ChatProgress(r)
        /\ q.pc = "done" =>
              /\ Last(q.response.chat_history).role = "assistant"
              /\ \A k \in 1..Len(NewEntries(q)) : NewEntries(q)[k].round \in 1..5
        /\ AlwaysRequestedTools(q) =>
              { NewEntries(q)[k].round : k \in 1..Len(NewEntries(q)) } = 1..5
    /\ \A d \in 1..Len(conversations_col) :
          \A k \in 1..Len(conversations_col[d].tools) :
              conversations_col[d].tools[k].round \in 1..5

C1_Step ==
    \A r \in Sequential :
        (req[r].pc \in InFlight /\ req'[r] # req[r]) =>
            StepsLeft(req'[r]) < StepsLeft(req[r])

\* a request in flight returns
C1_Terminates ==
    \A r \in Sequential : (req[r].pc \in InFlight) ~> (req[r].pc = "done")

\* C1: a chat turn whose model keeps requesting tool calls terminates (a request
\* in flight returns; it can always take a step, and every step lowers a bound
\* on the steps left); tool calls are executed in rounds 1..5 exactly, none is
\* executed or recorded with a round above 5, and the turn ends with an
\* assistant turn.
C1_RoundBound == [] C1_State /\ [][C1_Step]_vars /\ C1_Terminates

\* a turn that ran all five rounds and returned
C1_Witness ==
    \E r \in Sequential :
        /\ AlwaysRequestedTools(req[r])
        /\ { NewEntries(req[r])[k].round : k \in 1..Len(NewEntries(req[r])) } = 1..5

-----------------------------------------------------------------------------
(* C2: no assistant turn has an empty text *)

NoEmptyAssistantText(turns) ==
    \A k \in 1..Len(turns) : turns[k].role = "assistant" => turns[k].text # ""

\* C2: the text of every assistant turn appended by a chat turn is non-empty,
\* in the chat_history returned and in the messages persisted.
C2_NonEmptyAnswer ==
    /\ \A r \in Sequential :
          req[r].pc = "done" => NoEmptyAssistantText(req[r].response.chat_history)
    /\ \A d \in 1..Len(conversations_col) :
          NoEmptyAssistantText(conversations_col[d].messages)

-----------------------------------------------------------------------------
(* C3: one tools-disabled completion call after round 5 *)

\* C3: when every tool-enabled response of a turn requested tool calls, exactly
\* one completion call is made with tools disabled, it is the last call of the
\* turn (no tool call follows it) and its text is the answer returned.
C3_OneFinalCall ==
    \A r \in Sequential :
        LET q == req[r] IN
        AlwaysRequestedTools(q) =>
            /\ Cardinality(ToolsDisabledCalls(q)) = 1
            /\ ~Last(q.completions).tools
            /\ q.response.response = Last(q.completions).content

-----------------------------------------------------------------------------
(* C4: as many citations as tool calls executed *)

\* C4: the assistant turn a chat request appends, the error turn of the failure
\* handler included, carries as many citations as the request appended
\* ToolInvocations to the session's tool log.
C4_CitationCount ==
    \A r \in Sequential :
        LET q == req[r] IN
        ( /\ q.pc = "done"
          /\ PersistedMessages(q.session_id) = q.response.chat_history
          /\ PersistedTools(q.session_id) = q.tool_history )
        => Len(Last(q.response.chat_history).citations) = Len(NewEntries(q))

-----------------------------------------------------------------------------
(* C5: order of tool calls, citations, rounds and tool results *)

\* the citations of the turn a request is producing or has returned
TurnCitations(q) ==
    IF q.pc = "done" THEN Last(q.response.chat_history).citations ELSE q.citations

\* the k-th citation names the k-th ToolInvocation of the turn
CitationsFollowLog(q) ==
    \A k \in 1..Len(TurnCitations(q)) :
        /\ k <= Len(NewEntries(q))
        /\ TurnCitations(q)[k].tool = NewEntries(q)[k].tool
        /\ TurnCitations(q)[k].args = NewEntries(q)[k].args
        /\ TurnCitations(q)[k].round = NewEntries(q)[k].round

\* rounds count up from 1 without a gap; the call index restarts at 1 in each round
RoundsConsecutive(q) ==
    LET e == NewEntries(q) IN
    /\ e # <<>> => e[1].round = 1 /\ e[1].tool_index = 1
    /\ \A k \in 1..(Len(e) - 1) :
          \/ e[k + 1].round = e[k].round /\ e[k + 1].tool_index = e[k].tool_index + 1
          \/ e[k + 1].round = e[k].round + 1 /\ e[k + 1].tool_index = 1

\* the calls of the current round executed so far are the first calls of the
\* model's list, in its order
RoundInModelOrder(q) ==
    LET e == NewEntries(q)
        n == q.i - 1
    IN /\ n <= Len(e)
       /\ \A j \in 1..n :
            LET entry == e[Len(e) - n + j] IN
            /\ entry.tool = q.tool_calls[j].name
            /\ entry.args = parse_arguments(q.tool_calls[j].arguments)
            /\ entry.round = q.tool_call_round
            /\ entry.tool_index = j

\* before the completion call that follows a round, the message list ends with
\* the assistant message of the round and one tool message per call, in order,
\* each keyed to its call id and holding that call's result
ResultsFedBack(q) ==
    LET e == NewEntries(q)
        m == q.messages
        n == Len(q.tool_calls)
    IN /\ q.i = n + 1
       /\ Len(m) > n
       /\ m[Len(m) - n].role = "assistant"
       /\ m[Len(m) - n].tool_calls = q.tool_calls
       /\ \A j \in 1..n :
            LET msg == m[Len(m) - n + j] IN
            /\ msg.role = "tool"
            /\ msg.tool_call_id = q.tool_calls[j].id
            /\ msg.content = json_dumps(e[Len(e) - n + j].result)
       /\ \A j, k \in 1..n : j # k => q.tool_calls[j].id # q.tool_calls[k].id

\* C5: within a chat turn tool calls run one at a time in the model's order; the
\* k-th citation has the tool, args and round of the k-th ToolInvocation of the
\* turn; rounds are numbered consecutively from 1 and the call index restarts at
\* 1 in each round; every result of a round is in the message list, keyed to its
\* call id, before the completion call that follows the round.
C5_OrderedExecution ==
    \A r \in Sequential :
        LET q == req[r] IN
        /\ q.pc \in InFlight \/ (q.pc = "done" /\ q.response.success) =>
              CitationsFollowLog(q) /\ RoundsConsecutive(q)
        /\ q.pc \in {"exec", "follow_up", "final_max"} => RoundInModelOrder(q)
        /\ q.pc \in {"follow_up", "final_max"} => ResultsFedBack(q)
        /\ q.pc = "done" /\ q.response.success =>
              Len(TurnCitations(q)) = Len(NewEntries(q))

\* a second round is done after a first round of two calls
C5_Witness ==
    \E r \in Sequential :
        /\ req[r].pc = "follow_up"
        /\ req[r].tool_call_round = 2
        /\ Len(NewEntries(req[r])) = 3
        /\ Len(req[r].citations) = 3

-----------------------------------------------------------------------------
(* C6: a failed tool call is cited with its error *)

\* C6: when the dispatcher returned {"error": message} for a call of a turn that
\* returned an answer, the citation of that call has an error field holding the
\* message.
C6_ErrorCitation ==
    \A r \in Sequential :
        LET q == req[r] IN
        ( /\ q.pc = "done"
          /\ q.response.success
          /\ PersistedMessages(q.session_id) = q.response.chat_history )
        =>
            \A k \in 1..Len(NewEntries(q)) :
                "error" \in DOMAIN NewEntries(q)[k].result =>
                    /\ k <= Len(q.response.citations)
                    /\ "error" \in DOMAIN q.response.citations[k]
                    /\ q.response.citations[k].error = NewEntries(q)[k].result.error

-----------------------------------------------------------------------------
(* C7: memoized reuse of a successful result *)

\* C7: a chat turn appends no ToolInvocation whose (tool, args) the tool log it
\* loaded already holds with a successful result.
C7_MemoizedReuse ==
    \A r \in Sequential :
        LET q == req[r] IN
        q.pc # "idle" =>
            \A k \in 1..Len(NewEntries(q)) :
                \A j \in 1..q.loaded_tools :
                    ~ ( /\ q.tool_history[j].tool = NewEntries(q)[k].tool
                        /\ q.tool_history[j].args = NewEntries(q)[k].args
                        /\ Get(q.tool_history[j].result, "success", FALSE) )

-----------------------------------------------------------------------------
(* C8: the top-level failure handler *)

\* the step of the failure handler leaves the user turn followed by one error
\* turn with empty citations, after the turns that were loaded
ErrorTurnAppended(r) ==
    LET returned_history == req'[r].response.chat_history IN
    /\ ~req'[r].response.success
    /\ req'[r].response.error = error_response_text(req[r].error)
    /\ returned_history =
          Append(req[r].chat_history,
                 [role |-> "assistant",
                  text |-> "Error processing request: " \o req[r].error,
                  citations |-> <<>>])
    /\ Last(req[r].chat_history) = [role |-> "user", text |-> req[r].prompt]
    /\ Len(req[r].chat_history) = req[r].loaded_messages + 1

FailureHandled(r) == req[r].pc = "fail" /\ req'[r].pc = "done"

\* C8 as claimed: after the failure handler the persisted messages equal the
\* chat_history returned.
C8_ErrorPersisted ==
    [][\A r \in Sequential :
          FailureHandled(r) =>
              /\ ErrorTurnAppended(r)
              /\ conversations_col'[find_one(conversations_col', req[r].session_id)].messages
                    = req'[r].response.chat_history]_vars

\* C8 as amended: an exception raised in a chat turn yields exactly one error
\* turn with empty citations directly after the user turn; the store write is
\* the one of a normal answer, and the persisted messages and tools equal what
\* the request returned and held unless that write failed, in which case the
\* store is left as it was.
C8_ErrorPersistedUnlessWriteFails ==
    [][\A r \in Sequential :
          FailureHandled(r) =>
              /\ ErrorTurnAppended(r)
              /\ \/ conversations_col' =
                        update_one(conversations_col, req[r].session_id,
                                   req'[r].response.chat_history, req[r].tool_history)
                 \/ conversations_col' = conversations_col]_vars

\* a failed turn whose error turn is in the store, after a tool call was executed
C8_Witness ==
    \E r \in Sequential :
        /\ req[r].pc = "done"
        /\ ~req[r].response.success
        /\ NewEntries(req[r]) # <<>>
        /\ PersistedMessages(req[r].session_id) = req[r].response.chat_history

-----------------------------------------------------------------------------
(* C9: the message list of the first completion call *)

\* C9: the first completion call of a turn gets the system instruction, the
\* translations of the last 5 turns that preceded the new user message, and the
\* new user message once, as the last entry.
C9_FirstMessages ==
    \A r \in Sequential :
        LET q == req[r] IN
        q.pc = "first_call" =>
            q.messages =
                <<[role |-> "system", content |-> SystemPrompt]>>
                \o translate_history(LastN(LoadedTurns(q, q.chat_history), 5),
                                     q.tool_history)
                \o <<[role |-> "user", content |-> q.prompt]>>

-----------------------------------------------------------------------------
(* C10: archive, then reset *)

HasHistory(sid) ==
    /\ find_one(conversations_col, sid) # 0
    /\ PersistedMessages(sid) # <<>>

\* C10: clear and new-chat on a session with history append an archive holding
\* the messages and tools of before, and leave the conversation document of that
\* session id with empty messages and empty tools.
C10_ArchiveAndReset ==
    [][\A c \in Clients :
          ((clear_chat(c) \/ new_chat(c)) /\ HasHistory(cookie[c])) =>
              /\ Len(conversation_archives') = Len(conversation_archives) + 1
              /\ Last(conversation_archives').session_id = cookie[c]
              /\ Last(conversation_archives').messages = PersistedMessages(cookie[c])
              /\ Last(conversation_archives').tools = PersistedTools(cookie[c])
              /\ conversations_col'[find_one(conversations_col', cookie[c])].messages = <<>>
              /\ conversations_col'[find_one(conversations_col', cookie[c])].tools = <<>>]_vars

-----------------------------------------------------------------------------
(* The archive accessors *)

\* find({'session_id': sid}): the matching documents in insertion order
find(col, sid) == SelectSeq(col, LAMBDA d : d.session_id = sid)

\* sort('archived_at', -1): the latest archive first
newest_first(docs) == [k \in 1..Len(docs) |-> docs[Len(docs) - k + 1]]

\* the projection of get_chat_history
listed(doc) ==
    [_id |-> doc._id, title |-> doc.title, message_count |-> doc.message_count,
     first_message |-> doc.first_message]

\* the archives GET /api/chat-history returns (limit(20) is above the bounds)
list_archives(archives, sid) ==
    LET found == newest_first(find(archives, sid))
    IN [k \in 1..Len(found) |-> listed(found[k])]

\* an archive id of the URL that ObjectId() rejects
InvalidId == 0

\* a lookup by _id alone
find_archive_by_id(archives, obj_id, sid) ==
    IF \E i \in 1..Len(archives) : archives[i]._id = obj_id
    THEN CHOOSE i \in 1..Len(archives) : archives[i]._id = obj_id
    ELSE 0

\* find_one({'_id': obj_id, 'session_id': session_id}): index of the document, 0 when none
find_archive(archives, obj_id, sid) ==
    IF \E i \in 1..Len(archives) :
            archives[i]._id = obj_id /\ archives[i].session_id = sid
    THEN CHOOSE i \in 1..Len(archives) :
            archives[i]._id = obj_id /\ archives[i].session_id = sid
    ELSE 0

\* delete_one({'_id': obj_id, 'session_id': session_id})
delete_one(archives, obj_id, sid) ==
    LET i == find_archive(archives, obj_id, sid) IN
    IF i = 0 THEN archives
    ELSE SubSeq(archives, 1, i - 1) \o SubSeq(archives, i + 1, Len(archives))

\* what stays of an accessor request after it returned
accessed(handler, sid, archive_id, response) ==
    [pc |-> "done", handler |-> handler, session_id |-> sid,
     archive_id |-> archive_id, response |-> response]

\* GET /api/chat-history
get_chat_history(r, c) ==
    /\ n_requests < MaxRequests
    /\ cookie[c] # NoCookie
    /\ req' = [req EXCEPT ![r] =
            accessed("get_chat_history", cookie[c], InvalidId,
                     [archives |-> list_archives(conversation_archives, cookie[c])])]
    /\ n_requests' = n_requests + 1
    /\ UNCHANGED <<conversations_col, conversation_archives, n_archives, cookie,
                   use_openai, call_history, clock, n_calls, n_variations>>

\* GET /api/chat-history/<archive_id>
get_archived_conversation(r, c, archive_id) ==
    /\ n_requests < MaxRequests
    /\ cookie[c] # NoCookie
    /\ LET i == find_archive(conversation_archives, archive_id, cookie[c])
           response ==
               IF archive_id = InvalidId THEN [error |-> "Invalid archive ID"]
               ELSE IF i = 0 THEN [error |-> "Archive not found"]
               ELSE [archive |-> conversation_archives[i]]
       IN req' = [req EXCEPT ![r] =
            accessed("get_archived_conversation", cookie[c], archive_id, response)]
    /\ n_requests' = n_requests + 1
    /\ UNCHANGED <<conversations_col, conversation_archives, n_archives, cookie,
                   use_openai, call_history, clock, n_calls, n_variations>>

\* DELETE /api/chat-history/<archive_id>
delete_archived_conversation(r, c, archive_id) ==
    /\ n_requests < MaxRequests
    /\ cookie[c] # NoCookie
    /\ LET i == find_archive(conversation_archives, archive_id, cookie[c])
           response ==
               IF archive_id = InvalidId THEN [error |-> "Invalid archive ID"]
               ELSE IF i = 0 THEN [error |-> "Archive not found"]
               ELSE [success |-> TRUE]
       IN /\ req' = [req EXCEPT ![r] =
                accessed("delete_archived_conversation", cookie[c], archive_id, response)]
          /\ conversation_archives' =
                IF archive_id = InvalidId THEN conversation_archives
                ELSE delete_one(conversation_archives, archive_id, cookie[c])
    /\ n_requests' = n_requests + 1
    /\ UNCHANGED <<conversations_col, n_archives, cookie, use_openai, call_history,
                   clock, n_calls, n_variations>>

\* the archive ids a client may put into the URL: the ids generated so far,
\* the next one, and one that is no ObjectId
archive_ids == {InvalidId} \cup 1..(n_archives + 1)

\* The store and its accessors, without a model configured: the client holds
\* the cookie of session 1, whose conversation is in the store or is not (the
\* cookie outlived it).
InitStore ==
    /\ conversations_col \in {<<>>, <<new_conversation(1)>>}
    /\ conversation_archives = <<>>
    /\ n_archives = 0
    /\ cookie = [c \in Clients |-> 1]
    /\ use_openai = FALSE
    /\ req = [r \in Reqs |-> IdleReq]
    /\ call_history = <<>>
    /\ n_requests = 0
    /\ clock = 1
    /\ n_calls = 0
    /\ n_variations = 0

NextStore ==
    \/ \E c \in Clients : Quiet /\ index(c)
    \/ \E c \in Clients : Quiet /\ clear_chat(c)
    \/ \E c \in Clients : Quiet /\ new_chat(c)
    \/ \E r \in Sequential, c \in Clients, prompt \in Prompts : chat_start(r, c, prompt)
    \/ \E r \in Sequential, write_ok \in BOOLEAN : answer(r, write_ok)
    \/ \E r \in Sequential, c \in Clients : Quiet /\ get_chat_history(r, c)
    \/ \E r \in Sequential, c \in Clients, archive_id \in archive_ids :
            Quiet /\ get_archived_conversation(r, c, archive_id)
    \/ \E r \in Sequential, c \in Clients, archive_id \in archive_ids :
            Quiet /\ delete_archived_conversation(r, c, archive_id)

StoreSpec == InitStore /\ [][NextStore]_vars

-----------------------------------------------------------------------------
(* C11: no archive of an empty conversation *)

\* C11: a clear or new-chat request on a session whose conversation has no
\* messages, or that has no conversation, inserts no archive document.
C11_NoEmptyArchive ==
    [][\A c \in Clients :
          ((clear_chat(c) \/ new_chat(c)) /\ ~HasHistory(cookie[c])) =>
              /\ conversation_archives' = conversation_archives
              /\ n_archives' = n_archives]_vars

\* new-chat was called for session 1, which had no conversation, and then for
\* the empty conversation it created: two conversations, no archive
C11_Witness ==
    /\ n_requests = 2
    /\ Len(conversations_col) = 2
    /\ find_one(conversations_col, 1) = 0
    /\ conversation_archives = <<>>
    /\ n_archives = 0

-----------------------------------------------------------------------------
(* C12: one conversation per session id *)

\* C12: no two conversation documents have the same session_id.
C12_OneConversationPerSession ==
    \A i, j \in 1..Len(conversations_col) :
        conversations_col[i].session_id = conversations_col[j].session_id => i = j

-----------------------------------------------------------------------------
(* C13: concurrent chat requests of one session *)

\* the message of each of the two concurrent requests
RacePrompts == [r \in Reqs |-> IF r = 1 THEN "hi" ELSE "again"]

\* Two chat requests of session 1 are served by two threads of the server: the
\* last two requests of a run, after the index requests that created the
\* conversation. The model asks for at most one tool call per turn.
InitRace ==
    /\ conversations_col = <<new_conversation(1)>>
    /\ conversation_archives = <<>>
    /\ n_archives = 0
    /\ cookie = [c \in Clients |-> 1]
    /\ use_openai = TRUE
    /\ req = [r \in Reqs |-> IdleReq]
    /\ call_history = <<>>
    /\ n_requests = MaxRequests - 2
    /\ clock = 1
    /\ n_calls = 0
    /\ n_variations = 0

NextRace ==
    \/ \E r \in Reqs, c \in Clients :
            req[r].pc = "idle" /\ chat_start(r, c, RacePrompts[r])
    \/ \E r \in Reqs : first_completion(r, {NominalBatch})
    \/ \E r \in Reqs, from_server \in DispatchResults : execute_tool(r, from_server)
    \/ \E r \in Reqs : follow_up_completion(r, {})
    \/ \E r \in Reqs : final_completion(r)
    \/ \E r \in Reqs, write_ok \in BOOLEAN : answer(r, write_ok)
    \/ \E r \in Reqs, write_ok \in BOOLEAN : handle_exception(r, write_ok)

RaceSpec == InitRace /\ [][NextRace]_vars

\* the user turn of a request is among the persisted messages of its session
TurnPersisted(q) ==
    \E k \in 1..Len(PersistedMessages(q.session_id)) :
        PersistedMessages(q.session_id)[k] = [role |-> "user", text |-> q.prompt]

\* two requests of one session that both read the conversation before either
\* wrote it, and both returned success
Overlapped(q1, q2) ==
    /\ q1.pc = "done" /\ q2.pc = "done"
    /\ q1.response.success /\ q2.response.success
    /\ q1.session_id = q2.session_id
    /\ q1.loaded_messages = q2.loaded_messages

\* C13: chat requests write the full arrays they read and appended to, with no
\* lock or version check: of two requests of one session that both read the
\* conversation before either wrote it, the persisted messages never hold the
\* turns of both, and the persisted tools are never more than the tool log of
\* one of them.
C13_LostUpdate ==
    \A r1, r2 \in Reqs :
        (r1 # r2 /\ Overlapped(req[r1], req[r2])) =>
            /\ ~(TurnPersisted(req[r1]) /\ TurnPersisted(req[r2]))
            /\ PersistedTools(req[r1].session_id) \in
                    {<<>>, req[r1].tool_history, req[r2].tool_history}

\* both requests returned success and executed a tool call, the store holds
\* the turns and the tool invocations of request 2 only
C13_Witness ==
    /\ Overlapped(req[1], req[2])
    /\ NewEntries(req[1]) # <<>>
    /\ NewEntries(req[2]) # <<>>
    /\ PersistedMessages(1) = req[2].response.chat_history
    /\ PersistedTools(1) = req[2].tool_history
    /\ ~TurnPersisted(req[1])

-----------------------------------------------------------------------------
(* C14: the archive accessors are scoped to the caller's session *)

\* an archive with this id exists and belongs to another session than sid
OfAnotherSession(archive_id, sid) ==
    \E i \in 1..Len(conversation_archives) :
        /\ conversation_archives[i]._id = archive_id
        /\ conversation_archives[i].session_id # sid

\* the ids of the archives of a session
ArchiveIdsOf(sid) ==
    { conversation_archives[i]._id : i \in
        { j \in 1..Len(conversation_archives) : conversation_archives[j].session_id = sid } }

\* C14: the list of archives a caller gets holds the archives of the caller's
\* session id and no other; reading or deleting, by its id, an archive of
\* another session answers 'Archive not found' and leaves the archives as
\* they were.
C14_ArchiveScope ==
    [][\A r \in Sequential, c \in Clients :
          /\ get_chat_history(r, c) =>
                { req'[r].response.archives[k]._id :
                    k \in 1..Len(req'[r].response.archives) } = ArchiveIdsOf(cookie[c])
          /\ \A archive_id \in archive_ids :
                ( /\ \/ get_archived_conversation(r, c, archive_id)
                     \/ delete_archived_conversation(r, c, archive_id)
                  /\ OfAnotherSession(archive_id, cookie[c]) )
                => /\ req'[r].response = [error |-> "Archive not found"]
                   /\ conversation_archives' = conversation_archives]_vars

\* a caller asked to delete the archive of another session: the archive is
\* still there
C14_Witness ==
    \E r \in Sequential :
        /\ req[r].pc = "done"
        /\ "handler" \in DOMAIN req[r]
        /\ req[r].handler = "delete_archived_conversation"
        /\ OfAnotherSession(req[r].archive_id, req[r].session_id)

-----------------------------------------------------------------------------
(* C20: a failed store write is swallowed *)

\* the response holds the history the request loaded and appended to, followed
\* by one assistant turn with this text
ReturnsTurn(r, text) ==
    /\ req'[r].pc = "done"
    /\ Len(req'[r].response.chat_history) = Len(req[r].chat_history) + 1
    /\ SubSeq(req'[r].response.chat_history, 1, Len(req[r].chat_history))
          = req[r].chat_history
    /\ Last(req'[r].response.chat_history).role = "assistant"
    /\ Last(req'[r].response.chat_history).text = text

\* the store holds what the request returned, or it is as it was
WrittenOrUntouched(r) ==
    \/ conversations_col' = conversations_col
    \/ /\ conversations_col'[find_one(conversations_col', req[r].session_id)].messages
            = req'[r].response.chat_history
       /\ conversations_col'[find_one(conversations_col', req[r].session_id)].tools
            = req[r].tool_history

\* C20: whether the store write at the end of a chat turn succeeds or fails,
\* the request returns the in-memory assistant turn: a normal turn ends with a
\* success response holding the answer and the full chat_history, a failed
\* turn with the error response; a failed write leaves the store as it was.
C20_WriteFailureSwallowed ==
    [][\A r \in Sequential :
          /\ (req[r].pc = "persist" /\ req'[r] # req[r]) =>
                /\ req'[r].response.success
                /\ req'[r].response.response =
                      ensure_response(req[r].assistant_response, use_openai)
                /\ ReturnsTurn(r, req'[r].response.response)
                /\ Last(req'[r].response.chat_history).citations = req[r].citations
                /\ WrittenOrUntouched(r)
          /\ (req[r].pc = "fail" /\ req'[r] # req[r]) =>
                /\ ~req'[r].response.success
                /\ req'[r].response.error = error_response_text(req[r].error)
                /\ ReturnsTurn(r, req'[r].response.error)
                /\ WrittenOrUntouched(r)]_vars

\* a turn with a tool call returned its answer while the store write failed:
\* the store does not hold the turn
C20_Witness ==
    \E r \in Sequential :
        /\ req[r].pc = "done"
        /\ "handler" \notin DOMAIN req[r]
        /\ req[r].response.success
        /\ req[r].response.citations # <<>>
        /\ PersistedMessages(req[r].session_id) # req[r].response.chat_history

-----------------------------------------------------------------------------
(* The fallback responder (mcp_server/tools/llm_chat.py): Python strings *)

\* word in text
contains(word, text) ==
    \E i \in 1..(Len(text) - Len(word) + 1) : SubSeq(text, i, i + Len(word) - 1) = word

\* any(word in text for word in words)
any_in(words, text) == \E word \in words : contains(word, text)

UpperCase == "ABCDEFGHIJKLMNOPQRSTUVWXYZ"
LowerCase == "abcdefghijklmnopqrstuvwxyz"
Digits == "0123456789"

\* the character at position i
char_at(text, i) == SubSeq(text, i, i)

\* str.index of a character that occurs
index_of(ch, text) == CHOOSE k \in 1..Len(text) : char_at(text, k) = ch

\* str.lower() of one character
lower_char(ch) ==
    IF contains(ch, UpperCase) THEN char_at(LowerCase, index_of(ch, UpperCase)) ELSE ch

RECURSIVE lower(_)
\* str.lower(), one half of the text after the other
lower(text) ==
    IF Len(text) = 0 THEN ""
    ELSE IF Len(text) = 1 THEN lower_char(text)
    ELSE lower(SubSeq(text, 1, Len(text) \div 2))
            \o lower(SubSeq(text, Len(text) \div 2 + 1, Len(text)))

\* \s of the regular expressions
is_space(ch) == ch \in {" ", "\t", "\n"}

\* min and max of a non-empty set of positions
Min(positions) == CHOOSE i \in positions : \A j \in positions : i <= j
Max(positions) == CHOOSE i \in positions : \A j \in positions : i >= j

\* the text between the first and the last of the positions kept
between(text, kept) == IF kept = {} THEN "" ELSE SubSeq(text, Min(kept), Max(kept))

\* str.strip()
strip(text) == between(text, {i \in 1..Len(text) : ~is_space(char_at(text, i))})

\* str.startswith
starts_with(text, head) == Len(text) >= Len(head) /\ SubSeq(text, 1, Len(head)) = head

RECURSIVE join(_, _)
\* sep.join(items)
join(sep, items) ==
    IF items = <<>> THEN ""
    ELSE IF Len(items) = 1 THEN items[1]
    ELSE items[1] \o sep \o join(sep, Tail(items))

-----------------------------------------------------------------------------
(* The fallback responder: extraction of the location name *)

known_locations ==
    << "hq-dallas", "lab-austin", "hq-london", "hq-sydney",
       "branch office 1", "branch office 2", "branch office 3", "branch ofice 3",
       "data center 1", "data center 2", "campus a", "campus b" >>

NoMatch == "<no match>"

\* a search that returns the location as the list spells it
search_as_listed(location, message) == location

\* the occurrence of the given length at the first of the positions
first_occurrence(message, len, positions) ==
    SubSeq(message, Min(positions), Min(positions) + len - 1)

\* re.compile(re.escape(location), re.IGNORECASE).search(message).group(0): the
\* first occurrence, in the case of the message
search_ignorecase(location, message) ==
    first_occurrence(message, Len(location),
        {i \in 1..(Len(message) - Len(location) + 1) :
            lower(SubSeq(message, i, i + Len(location) - 1)) = location})

\* the first of the known locations found in the message
first_known(message, known) ==
    IF known = {} THEN NoMatch ELSE search_ignorecase(known_locations[Min(known)], message)

\* for location in known_locations: if location in message_lower
known_location(message, message_lower) ==
    first_known(message,
                {k \in 1..Len(known_locations) : contains(known_locations[k], message_lower)})

\* the keywords of the two patterns
PrepositionPattern == {"at", "in", "for"}
KeywordPattern == {"site", "office", "branch", "location"}

\* [A-Za-z0-9\-\s]
in_class(ch) == contains(ch, UpperCase \o LowerCase \o Digits \o "-") \/ is_space(ch)

\* (?:\s|$|\.|\?) at position i
terminates(message, i) ==
    i > Len(message) \/ is_space(char_at(message, i)) \/ char_at(message, i) \in {".", "?"}

\* the ways (?:k1|k2|..)\s+([A-Za-z0-9\-\s]+?)(?:\s|$|\.|\?) matches at position i,
\* case ignored: the keyword, the length of the white space and of the group
matches_at(keywords, message, i) ==
    UNION {
      {m \in [kw : {kw}, ws : 1..(Len(message) - i), len : 1..(Len(message) - i)] :
          /\ i + Len(kw) + m.ws + m.len - 1 <= Len(message)
          /\ \A j \in 1..m.ws : is_space(char_at(message, i + Len(kw) + j - 1))
          /\ \A j \in 1..m.len : in_class(char_at(message, i + Len(kw) + m.ws + j - 1))
          /\ terminates(message, i + Len(kw) + m.ws + m.len)} :
      kw \in {k \in keywords :
                /\ i + Len(k) <= Len(message)
                /\ lower(SubSeq(message, i, i + Len(k) - 1)) = k
                /\ is_space(char_at(message, i + Len(k)))}}

\* the match the backtracking engine prefers: \s+ is greedy, the group is lazy
preferred(ms) ==
    CHOOSE m1 \in ms : \A m2 \in ms : m1.ws > m2.ws \/ (m1.ws = m2.ws /\ m1.len <= m2.len)

\* the group of a match at position i and the position after the match: the
\* terminating character, if any, is consumed
group_of(message, start, len) ==
    [group |-> SubSeq(message, start, start + len - 1),
     next |-> IF start + len > Len(message) THEN start + len ELSE start + len + 1]

match_of(message, i, m) == group_of(message, i + Len(m.kw) + m.ws, m.len)

match_at(keywords, message, i) ==
    match_of(message, i, preferred(matches_at(keywords, message, i)))

NotLocations == {"prefixes", "prefix", "what", "show", "find", "me", "the", "location"}

RECURSIVE first_location(_, _, _)

\* location_name = match.strip(): returned unless a common non-location word
accept_group(keywords, message, next, location_name) ==
    IF lower(location_name) \notin NotLocations
    THEN location_name
    ELSE first_location(keywords, message, next)

accept_match(keywords, message, m) == accept_group(keywords, message, m.next, strip(m.group))

\* the matches of re.findall from the leftmost of the positions on
first_at(keywords, message, positions) ==
    IF positions = {} THEN NoMatch
    ELSE accept_match(keywords, message, match_at(keywords, message, Min(positions)))

\* the first group of re.findall(pattern, message, re.IGNORECASE), scanning from
\* position i, that is not a common non-location word
first_location(keywords, message, i) ==
    first_at(keywords, message,
             {j \in i..Len(message) : matches_at(keywords, message, j) # {}})

DefaultLocation == "HQ-Dallas"

\* what was found, or else the next thing to try
or_else(found, otherwise) == IF found # NoMatch THEN found ELSE otherwise

extract_location_name(message) ==
    or_else(known_location(message, lower(message)),
            or_else(first_location(PrepositionPattern, message, 1),
                    or_else(first_location(KeywordPattern, message, 1),
                            DefaultLocation)))

-----------------------------------------------------------------------------
(* The fallback responder: the decision tree *)

DomainWords ==
    {"prefix", "network", "subnet", "ip", "location", "branch", "office", "hq",
     "dallas", "austin"}
follow_up_indicators ==
    {"it", "them", "those", "this", "that", "the", "show", "give", "get", "as", "in",
     "can you", "please", "format", "put", "make", "provide"}
DataWords == {"prefix", "network", "subnet", "ip"}
LocationWords == {"location", "branch", "office", "hq", "dallas", "austin"}
HelpWords == {"help", "what can you do", "capabilities"}

\* [msg.get("text", "") for msg in conversation_history]
texts(conversation_history) ==
    [k \in 1..Len(conversation_history) |-> conversation_history[k].text]

\* a decision tree that tests for a help request before a follow-up
select_branch_help_first(message_lower, conversation_history, history_text) ==
    IF ~any_in(DomainWords, message_lower) THEN "general"
    ELSE IF any_in(HelpWords, message_lower) THEN "help"
    ELSE IF /\ conversation_history # <<>>
            /\ any_in(follow_up_indicators, message_lower)
            /\ any_in({"prefix", "network", "branch office"}, history_text)
         THEN "follow_up"
    ELSE IF any_in(DataWords, message_lower) /\ any_in(LocationWords, message_lower)
         THEN "network_query"
    ELSE "general"

\* the tests of the decision tree, in their order
select_branch(message_lower, conversation_history, history_text) ==
    IF ~any_in(DomainWords, message_lower) THEN "general"
    ELSE IF /\ conversation_history # <<>>
            /\ any_in(follow_up_indicators, message_lower)
            /\ any_in({"prefix", "network", "branch office"}, history_text)
         THEN "follow_up"
    ELSE IF any_in(DataWords, message_lower) /\ any_in(LocationWords, message_lower)
         THEN "network_query"
    ELSE IF any_in(HelpWords, message_lower) THEN "help"
    ELSE "general"

\* the branch taken for a message and the history of its conversation
process_with_llm_intelligence(message, conversation_history) ==
    select_branch(lower(message), conversation_history,
                  lower(join(" ", texts(conversation_history))))

GreetingText == "Hello! I'm an AI assistant ..."
HowAreYouText == "I'm doing well, thank you for asking! ..."
WelcomeText == "You're very welcome! ..."
GoodbyeText == "Goodbye! ..."
CapabilitiesText == "I'm an AI assistant that can help you with various tasks ..."
HelpText == "I can help you with Nautobot network information! ..."

general_answer(message_lower) ==
    IF any_in({"hello", "hi", "hey", "greetings"}, message_lower) THEN GreetingText
    ELSE IF any_in({"how are you", "how do you do", "are you ok"}, message_lower)
         THEN HowAreYouText
    ELSE IF any_in({"thanks", "thank you", "appreciate"}, message_lower) THEN WelcomeText
    ELSE IF any_in({"bye", "goodbye", "see you", "later"}, message_lower) THEN GoodbyeText
    ELSE CapabilitiesText

handle_general_conversation_simple(message) == general_answer(lower(message))

handle_help_request_simple == HelpText

-----------------------------------------------------------------------------
(* The fallback responder: location and format of the tool call *)

invalid_locations ==
    {"HQ-Dallas", "a", "to", "in", "as", "the", "data", "format", "table", "csv", "export"}

\* if location_name and location_name not in [...]
is_valid_location(location_name) ==
    location_name # "" /\ location_name \notin invalid_locations

RECURSIVE scan_history(_, _, _)

\* the location of the user turn at position i: the loop breaks on a valid one
scan_user_turn(conversation_history, i, location_name) ==
    IF is_valid_location(location_name)
    THEN location_name
    ELSE scan_history(conversation_history, i - 1, location_name)

\* for msg in reversed(conversation_history): the location extracted from the
\* user turn at position i or before it, stopping at the first valid one
scan_history(conversation_history, i, location_name) ==
    IF i = 0 THEN location_name
    ELSE IF conversation_history[i].role = "user"
         THEN scan_user_turn(conversation_history, i,
                             extract_location_name(conversation_history[i].text))
         ELSE scan_history(conversation_history, i - 1, location_name)

\* if not location_name: location_name = "Branch Office 3"
or_branch_office_3(location_name) ==
    IF location_name \in {PyNone, ""} THEN "Branch Office 3" ELSE location_name

\* the location of a follow-up: from the user turns of the history
follow_up_location(conversation_history) ==
    or_branch_office_3(
        scan_history(conversation_history, Len(conversation_history), PyNone))

TableWords == {"table", "as table", "show table"}
CsvWords == {"csv", "export", "download", "file"}
DataframeWords == {"dataframe", "analysis", "analyze"}

\* a format that is resolved from the message only while no run has returned
follow_up_format_once(message) ==
    IF \E r \in Reqs : req[r].pc = "done"
    THEN "json"
    ELSE IF any_in(TableWords, lower(message)) THEN "table" ELSE "csv"

\* the format named in the lower-cased message, otherwise the given one
named_format(m, otherwise) ==
    IF any_in(TableWords, m) THEN "table"
    ELSE IF any_in(CsvWords, m) THEN "csv"
    ELSE IF any_in(DataframeWords, m) THEN "dataframe"
    ELSE otherwise

\* the format of a follow-up
follow_up_format(message) ==
    named_format(lower(message),
                 IF any_in({"show", "give", "get", "provide"}, lower(message))
                 THEN "table" ELSE "json")

RECURSIVE split(_, _)

\* the text before position i and the parts of the text after it
split_at(text, sep, i) ==
    <<SubSeq(text, 1, i - 1)>> \o split(SubSeq(text, i + 1, Len(text)), sep)

\* text.split(sep), for a separator of one character
split(text, sep) ==
    IF ~contains(sep, text) THEN <<text>>
    ELSE split_at(text, sep, Min({k \in 1..Len(text) : char_at(text, k) = sep}))

RECURSIVE scan_lines(_, _, _)

\* the location of a line that holds 'user:': the loop breaks on a valid one
scan_user_line(lines, i, location_name, historical_location) ==
    IF is_valid_location(historical_location)
    THEN historical_location
    ELSE scan_lines(lines, i + 1, location_name)

\* for line in conversation_history.split('\n'): the first valid location of
\* a line that holds 'user:'
scan_lines(lines, i, location_name) ==
    IF i > Len(lines) THEN location_name
    ELSE IF contains("user:", lower(lines[i]))
         THEN scan_user_line(lines, i, location_name, extract_location_name(lines[i]))
         ELSE scan_lines(lines, i + 1, location_name)

\* the location of the message, or the one of the history when that is invalid
message_or_history(location_name, history) ==
    IF ~is_valid_location(location_name) /\ history # ""
    THEN scan_lines(split(history, "\n"), 1, location_name)
    ELSE location_name

\* the location of a direct query: the history is the texts joined by " "
prefix_query_location(message, conversation_history) ==
    message_or_history(extract_location_name(message),
                       join(" ", texts(conversation_history)))

\* "Handle follow-up questions": the format named in the message, table for
\* show/give/get
follow_up_override(m, format_type) ==
    IF any_in({"it", "them", "those", "this", "that", "the", "show", "give", "get",
               "as", "in"}, m)
    THEN named_format(m, IF any_in({"show", "give", "get"}, m) THEN "table" ELSE format_type)
    ELSE format_type

\* the format of a direct query
prefix_query_format(message) ==
    follow_up_override(lower(message), named_format(lower(message), "json"))

NoCall == [location_name |-> PyNone, format |-> PyNone]

\* the arguments of the tool call of a branch, NoCall for a branch without one
tool_arguments(branch, message, conversation_history) ==
    IF branch = "follow_up"
    THEN [location_name |-> follow_up_location(conversation_history),
          format |-> follow_up_format(message)]
    ELSE IF branch = "network_query"
    THEN [location_name |-> prefix_query_location(message, conversation_history),
          format |-> prefix_query_format(message)]
    ELSE NoCall

-----------------------------------------------------------------------------
(* The fallback responder: the tool call and the answer *)

\* prefixes of one location that the Nautobot client may return
MaxPrefixes == 6

\* what client.get_prefixes_by_location does: it returns a list of prefix
\* records or raises
prefix_records(n) == [k \in 1..n |-> [prefix |-> "10.0." \o ToString(k) \o ".0/24"]]
PrefixCounts == {0, 1, 5, MaxPrefixes}
ClientResults ==
    {[prefixes |-> prefix_records(n)] : n \in PrefixCounts} \cup {[raises |-> "timeout"]}

\* tools/prefixes.py: the format is ignored, every exception becomes a result
get_prefixes_by_location(location_name, format, from_client) ==
    IF "raises" \in DOMAIN from_client
    THEN [success |-> FALSE,
          error |-> "Failed to get prefixes for location '" \o location_name \o "': "
                        \o from_client.raises,
          data |-> <<>>, count |-> 0]
    ELSE IF from_client.prefixes = <<>>
    THEN [success |-> TRUE,
          message |-> "No prefixes found at location '" \o location_name \o "'",
          data |-> <<>>, count |-> 0]
    ELSE [success |-> TRUE,
          message |-> "Found " \o ToString(Len(from_client.prefixes))
                          \o " prefixes at location '" \o location_name \o "'",
          count |-> Len(from_client.prefixes),
          data |-> from_client.prefixes]

FormatOptionsText == "\n\n**Other Format Options**: ..."
ConcatTypeError == "can only concatenate str (not \"list\") to str"

\* [p["prefix"] for p in prefixes[:5]]
prefix_list(prefixes) ==
    [k \in 1..(IF Len(prefixes) <= 5 THEN Len(prefixes) ELSE 5) |-> prefixes[k].prefix]

\* the json answer: the count, the location and the first five prefixes
json_answer(prefixes, location_name) ==
    "Found " \o ToString(Len(prefixes)) \o " prefixes at " \o location_name \o ". "
       \o (IF Len(prefixes) <= 5
           THEN "All prefixes: " \o join(", ", prefix_list(prefixes))
           ELSE "First 5 prefixes: " \o join(", ", prefix_list(prefixes)) \o "... (and "
                    \o ToString(Len(prefixes) - 5) \o " more)")

\* the citation of a call that returned
result_citation(location_name, format_type, result) ==
    [tool |-> "get_prefixes_by_location_enhanced",
     args |-> [location_name |-> location_name, format |-> format_type],
     result_count |-> Get(result, "count", 0),
     result_summary |-> Get(result, "message", "Query completed")]

\* the citation of the except branch
error_citation(location_name, format_type, e) ==
    [tool |-> "get_prefixes_by_location_enhanced",
     args |-> [location_name |-> location_name, format |-> format_type],
     error |-> e]

\* the try block shared by both tool-invoking branches: the citation is
\* appended as soon as the tool has returned, then the answer is built; for the
\* table format the data, a list, is added to a string, which raises, and the
\* except branch appends its own citation
prefixes_answer(location_name, format_type, result) ==
    IF result.success /\ result.data # <<>>
    THEN IF format_type = "table"
         THEN [answer |-> "Sorry, I encountered an error while looking up prefixes for "
                             \o location_name \o ": " \o ConcatTypeError,
               citations |-> << result_citation(location_name, format_type, result),
                                error_citation(location_name, format_type,
                                               ConcatTypeError) >>]
         ELSE [answer |->
                   (IF format_type = "json"
                    THEN json_answer(result.data, location_name)
                    ELSE IF format_type = "dataframe"
                    THEN "**Data Analysis for " \o location_name \o "**\n\n\nFound "
                             \o ToString(Get(result, "count", 0))
                             \o " prefixes with detailed analysis."
                    ELSE "**CSV Export for " \o location_name \o "** ...")
                   \o FormatOptionsText,
               citations |-> <<result_citation(location_name, format_type, result)>>]
    ELSE [answer |-> Get(result, "message",
                         "No prefixes found at " \o location_name \o "."),
          citations |-> <<result_citation(location_name, format_type, result)>>]

\* the answer and the citations of a branch
branch_outcome(branch, args, message, from_client) ==
    IF branch \in {"follow_up", "network_query"}
    THEN prefixes_answer(args.location_name, args.format,
             get_prefixes_by_location(args.location_name, args.format, from_client))
    ELSE [answer |-> IF branch = "help" THEN handle_help_request_simple
                     ELSE handle_general_conversation_simple(message),
          citations |-> <<>>]

\* what is known of a run: its inputs, the branch, the tool calls made, the
\* answer and the citations
run_record(message, conversation_history, from_client, branch, args, outcome) ==
    [pc |-> "done", handler |-> "llm_chat",
     message |-> message, conversation_history |-> conversation_history,
     from_client |-> from_client,
     branch |-> branch,
     calls |-> IF args = NoCall THEN <<>> ELSE <<args>>,
     answer |-> outcome.answer,
     citations |-> outcome.citations]

run_branch(message, conversation_history, from_client, branch, args) ==
    run_record(message, conversation_history, from_client, branch, args,
               branch_outcome(branch, args, message, from_client))

run_decided(message, conversation_history, from_client, branch) ==
    run_branch(message, conversation_history, from_client, branch,
               tool_arguments(branch, message, conversation_history))

\* one run of the responder
responded(message, conversation_history, from_client) ==
    run_decided(message, conversation_history, from_client,
                process_with_llm_intelligence(message, conversation_history))

\* llm_chat without an external model, on the message and the history the
\* caller passes
llm_chat(r, from_client) ==
    /\ req[r].pc = "idle"
    /\ "message" \in DOMAIN req[r]
    /\ req' = [req EXCEPT ![r] =
                  responded(req[r].message, req[r].conversation_history, from_client)]
    /\ UNCHANGED <<conversations_col, conversation_archives, n_archives, cookie, use_openai,
                   call_history, n_requests, clock, n_calls, n_variations>>

-----------------------------------------------------------------------------
(* The responder on its own: two runs, each on a message and a history *)

BranchOfficeQuestion == "What prefixes are at Branch Office 3?"
FallbackMessages ==
    {BranchOfficeQuestion, "show that as a table", "show prefixes as a table",
     "Show me prefixes at Branch Office 3 as a table", "help with prefixes", "hi"}
BranchOfficeHistory ==
    << [role |-> "user", text |-> BranchOfficeQuestion],
       [role |-> "assistant",
        text |-> json_answer(prefix_records(2), "Branch Office 3") \o FormatOptionsText] >>
FallbackHistories ==
    { <<>>, BranchOfficeHistory,
      << [role |-> "user", text |-> "hi"], [role |-> "assistant", text |-> GreetingText] >> }

InitFallback ==
    /\ conversations_col = <<>>
    /\ conversation_archives = <<>>
    /\ n_archives = 0
    /\ cookie = [c \in Clients |-> NoCookie]
    /\ use_openai = FALSE
    /\ req \in [Reqs -> [pc : {"idle"}, message : FallbackMessages,
                          conversation_history : FallbackHistories]]
    /\ call_history = <<>>
    /\ n_requests = 0
    /\ clock = 0
    /\ n_calls = 0
    /\ n_variations = 0

\* each run gets its own result from the Nautobot client
NextFallback == \E r \in Reqs, from_client \in ClientResults : llm_chat(r, from_client)

FallbackSpec == InitFallback /\ [][NextFallback]_vars

\* the runs of the responder that have returned
FallbackRuns == {r \in Reqs : req[r].pc = "done" /\ Get(req[r], "handler", "chat") = "llm_chat"}

-----------------------------------------------------------------------------
(* C15: the chat handler without a configured model *)

\* the turns a returned chat request had loaded from the store
LoadedHistory(q) == SubSeq(q.response.chat_history, 1, q.loaded_messages)

\* C15: when no LLM backend is configured, a chat request is answered by the
\* fallback responder: the assistant turn that is appended and returned holds
\* the answer and the citations the decision tree yields for the message and
\* the history.
C15_FallbackResponds ==
    \A r \in Sequential :
        (req[r].pc = "done" /\ "prompt" \in DOMAIN req[r] /\ ~use_openai) =>
            \E from_client \in ClientResults :
                LET f == responded(req[r].prompt, LoadedHistory(req[r]), from_client)
                    turn == Last(req[r].response.chat_history)
                IN /\ turn.role = "assistant"
                   /\ turn.text = f.answer
                   /\ Len(turn.citations) = Len(f.citations)

-----------------------------------------------------------------------------
(* C16 .. C19: the fallback responder *)

BranchOffice3Json == [location_name |-> "Branch Office 3", format |-> "json"]
BranchOffice3Table == [location_name |-> "Branch Office 3", format |-> "table"]

\* C16: the follow-up "show that as a table" after a user turn about Branch
\* Office 3 takes the follow-up branch and invokes the prefixes tool for
\* Branch Office 3, resolved from the history, with format table.
C16_FollowUpExample ==
    \A r \in FallbackRuns :
        (req[r].message = "show that as a table"
            /\ req[r].conversation_history = BranchOfficeHistory) =>
            /\ req[r].branch = "follow_up"
            /\ req[r].calls = <<BranchOffice3Table>>

\* the example query on an empty history: one call for Branch Office 3 in json
\* and one citation of it
DirectQueryResolved(q) ==
    /\ q.branch = "network_query"
    /\ q.calls = <<BranchOffice3Json>>
    /\ Len(q.citations) = 1
    /\ q.citations[1].tool = "get_prefixes_by_location_enhanced"
    /\ q.citations[1].args = BranchOffice3Json

\* the answer begins with the number of prefixes the tool returned
FoundAnswer(q) ==
    starts_with(q.answer, "Found " \o ToString(Len(q.from_client.prefixes))
                              \o " prefixes at Branch Office 3.")

\* C17 as stated: on an empty history "What prefixes are at Branch Office 3?"
\* resolves Branch Office 3 and json, invokes the tool once, returns one
\* citation, and the answer begins "Found <N> prefixes at Branch Office 3." for
\* whatever number N of prefixes the tool returned.
C17_DirectQueryExample ==
    \A r \in FallbackRuns :
        (req[r].message = BranchOfficeQuestion /\ req[r].conversation_history = <<>>) =>
            /\ DirectQueryResolved(req[r])
            /\ "prefixes" \in DOMAIN req[r].from_client => FoundAnswer(req[r])

\* C17: on an empty history "What prefixes are at Branch Office 3?" resolves
\* Branch Office 3 and json, invokes the tool once and returns one citation;
\* the answer begins "Found <N> prefixes at Branch Office 3." when the tool
\* returned N >= 1 prefixes, and is the tool's "No prefixes found at location
\* 'Branch Office 3'" when it returned none.
C17_DirectQueryExampleWhenFound ==
    \A r \in FallbackRuns :
        (req[r].message = BranchOfficeQuestion /\ req[r].conversation_history = <<>>) =>
            /\ DirectQueryResolved(req[r])
            /\ "prefixes" \in DOMAIN req[r].from_client =>
                  IF req[r].from_client.prefixes # <<>>
                  THEN FoundAnswer(req[r])
                  ELSE req[r].answer = "No prefixes found at location 'Branch Office 3'"

\* the example query was answered from more prefixes than the answer lists
C17_Witness ==
    \E r \in FallbackRuns :
        /\ req[r].message = BranchOfficeQuestion
        /\ req[r].conversation_history = <<>>
        /\ "prefixes" \in DOMAIN req[r].from_client
        /\ Len(req[r].from_client.prefixes) > 5
        /\ Len(req[r].citations) = 1

C19_OneCitationPerCall ==
    \A r \in FallbackRuns :
        req[r].branch \in {"follow_up", "network_query"} =>
            /\ Len(req[r].calls) = 1
            /\ Len(req[r].citations) = 1

-----------------------------------------------------------------------------
(* The tool dispatcher (mcp_client.py) on its own *)

\* MCP_SERVERS: the names of the configured servers
MCP_SERVERS == {"nautobot"}
ServerNames == {"nautobot", "netbox"}

\* what requests.post may do: raise for a network failure, or return a response
\* with a status code and a body, which may not be JSON
HttpOutcomes ==
    { [raises |-> "ConnectionError"],
      [raises |-> "ReadTimeout"],
      [status_code |-> 500, body |-> "Internal Server Error"],
      [status_code |-> 200, body |-> "<html>"],
      [status_code |-> 200, json |-> [result |-> PrefixPayload]],
      [status_code |-> 200, json |-> [error |-> "Unknown tool"]] }

\* the RequestException of an outcome, PyNone when result = response.json() is
\* reached and succeeds: raise_for_status raises HTTPError for a status of 400
\* and above, response.json() raises requests' JSONDecodeError
request_exception(outcome) ==
    IF "raises" \in DOMAIN outcome THEN outcome.raises
    ELSE IF outcome.status_code >= 400 THEN "HTTPError"
    ELSE IF "json" \notin DOMAIN outcome THEN "JSONDecodeError"
    ELSE PyNone

\* an invoke_tool that sends the request again after a failure
invoke_tool_retrying(tool_name, args, outcome) ==
    LET request_data == [tool_name |-> tool_name, args |-> args]
        failed == [body |-> request_data,
                   response |-> [error |-> request_exception(outcome)],
                   error |-> request_exception(outcome)]
    IN IF request_exception(outcome) = PyNone
       THEN [returns |-> outcome.json,
             recorded |-> << [body |-> request_data, response |-> outcome.json,
                              status_code |-> outcome.status_code] >>]
       ELSE [returns |-> [error |-> request_exception(outcome)],
             recorded |-> <<failed, failed>>]

\* MCPClient.invoke_tool: one requests.post, one entry of call_history, and the
\* server's JSON or {"error": str(e)} returned
invoke_tool(tool_name, args, outcome) ==
    LET request_data == [tool_name |-> tool_name, args |-> args]
    IN IF request_exception(outcome) = PyNone
       THEN [returns |-> outcome.json,
             recorded |-> << [body |-> request_data, response |-> outcome.json,
                              status_code |-> outcome.status_code] >>]
       ELSE [returns |-> [error |-> request_exception(outcome)],
             recorded |-> << [body |-> request_data,
                              response |-> [error |-> request_exception(outcome)],
                              error |-> request_exception(outcome)] >>]

\* invoke_tool_on_server: a server that is not configured gets no request
invoke_tool_on_server(server_name, tool_name, args, outcome) ==
    IF server_name \notin MCP_SERVERS
    THEN [returns |-> [error |-> "Server '" \o server_name \o "' not found"],
          recorded |-> <<>>]
    ELSE invoke_tool(tool_name, args, outcome)

\* one call of the dispatcher by a caller
invoke(r, server_name, tool_name, args, outcome) ==
    /\ req[r].pc = "idle"
    /\ LET call == invoke_tool_on_server(server_name, tool_name, args, outcome)
       IN /\ req' = [req EXCEPT ![r] =
                        [pc |-> "done", handler |-> "invoke_tool_on_server",
                         server_name |-> server_name, tool_name |-> tool_name,
                         args |-> args, outcome |-> outcome,
                         returns |-> call.returns]]
          /\ call_history' = call_history \o call.recorded
    /\ UNCHANGED <<conversations_col, conversation_archives, n_archives, cookie, use_openai,
                   n_requests, clock, n_calls, n_variations>>

InitDispatch ==
    /\ conversations_col = <<>>
    /\ conversation_archives = <<>>
    /\ n_archives = 0
    /\ cookie = [c \in Clients |-> NoCookie]
    /\ use_openai = TRUE
    /\ req = [r \in Reqs |-> IdleReq]
    /\ call_history = <<>>
    /\ n_requests = 0
    /\ clock = 0
    /\ n_calls = 0
    /\ n_variations = 0

NextDispatch ==
    \E r \in Reqs, server_name \in ServerNames, tool_name \in {PrefixesTool, LocationsTool},
       outcome \in HttpOutcomes :
        invoke(r, server_name, tool_name, [location_name |-> "BRCN"], outcome)

DispatchSpec == InitDispatch /\ [][NextDispatch]_vars

\* the calls of the dispatcher that have returned
Invokes == {r \in Reqs : req[r].pc = "done"}

\* the failures of a call: the server is not configured, the network failed, or
\* the server answered with an error status
DispatchFailed(q) ==
    \/ q.server_name \notin MCP_SERVERS
    \/ "raises" \in DOMAIN q.outcome
    \/ q.outcome.status_code >= 400

\* C21: every call of the dispatcher returns a value; for an unknown server, a
\* network failure or an HTTP error status the value is {"error": <message>};
\* and the requests sent to the tool server are never more than the calls made,
\* none of them for an unknown server.
C21_DispatcherNeverRaises ==
    /\ \A r \in Invokes :
          /\ "returns" \in DOMAIN req[r]
          /\ DispatchFailed(req[r]) => DOMAIN req[r].returns = {"error"}
    /\ Len(call_history) <= Cardinality(Invokes)
    /\ Len(call_history) =
          Cardinality({r \in Invokes : req[r].server_name \in MCP_SERVERS})

\* two calls have returned, one after a network failure and one for an unknown
\* server: one request was sent
C21_Witness ==
    /\ \E r \in Invokes :
          req[r].server_name \in MCP_SERVERS /\ "raises" \in DOMAIN req[r].outcome
    /\ \E r \in Invokes : req[r].server_name \notin MCP_SERVERS
    /\ Len(call_history) = 1

-----------------------------------------------------------------------------
(* C22: turns are append-only *)

\* the step that ends a chat request, on the success or on the failure path
TurnEnded(r) == req[r].pc \in {"persist", "fail"} /\ req'[r].pc = "done"

\* the persisted messages after the step are the persisted messages before it,
\* unchanged and in order, followed by the user turn and one assistant turn
TwoTurnsAppended(r) ==
    LET sid == req[r].session_id
        before == conversations_col[find_one(conversations_col, sid)].messages
        after == conversations_col'[find_one(conversations_col', sid)].messages
    IN /\ Len(after) = Len(before) + 2
       /\ SubSeq(after, 1, Len(before)) = before
       /\ after[Len(before) + 1] = [role |-> "user", text |-> req[r].prompt]
       /\ after[Len(before) + 2].role = "assistant"

\* C22 as claimed: a chat request served without a concurrent writer leaves
\* the persisted messages it found followed by exactly one user turn and one
\* assistant turn, on the success path and on the failure path.
C22_AppendOnly ==
    [][\A r \in Sequential : TurnEnded(r) => TwoTurnsAppended(r)]_vars

\* C22 as amended: a chat request served without a concurrent writer leaves
\* the persisted messages it found followed by exactly one user turn and one
\* assistant turn, or, when its store write failed, leaves the store as it was.
C22_AppendOnlyUnlessWriteFails ==
    [][\A r \in Sequential :
          TurnEnded(r) =>
              \/ TwoTurnsAppended(r)
              \/ conversations_col' = conversations_col]_vars

\* a failed turn written after the two turns of an earlier request of the session
C22_Witness ==
    \E r \in Sequential :
        /\ req[r].pc = "done"
        /\ ~req[r].response.success
        /\ req[r].loaded_messages = 2
        /\ Len(PersistedMessages(req[r].session_id)) = 4
        /\ PersistedMessages(req[r].session_id) = req[r].response.chat_history

-----------------------------------------------------------------------------
(* C23: assistant turns of the history in the model input *)

\* the positions of the assistant turns of a window that satisfy a condition
\* on their citations
AssistantTurns(window, SingleCitation, with_errors) ==
    {i \in 1..Len(window) :
        /\ window[i].role = "assistant"
        /\ (Len(window[i].citations) = 1) = SingleCitation
        /\ with_errors \/ ~is_error_text(window[i].text)}

\* the assistant messages of a message list, with or without tool calls
AssistantMessages(messages, with_tool_calls) ==
    {i \in 1..Len(messages) :
        /\ messages[i].role = "assistant"
        /\ ("tool_calls" \in DOMAIN messages[i]) = with_tool_calls}

\* an assistant message with one tool call, immediately followed by a
\* tool-result message with the same tool_call_id
FollowedByResult(messages, i) ==
    /\ Len(messages[i].tool_calls) = 1
    /\ i < Len(messages)
    /\ messages[i + 1].role = "tool"
    /\ messages[i + 1].tool_call_id = messages[i].tool_calls[1].id

\* the message list holds one re-expansion per single-citation assistant turn
\* of the window and one plain assistant message per other assistant turn
Translated(messages, window, with_errors) ==
    /\ Cardinality(AssistantMessages(messages, TRUE))
          = Cardinality(AssistantTurns(window, TRUE, with_errors))
    /\ \A i \in AssistantMessages(messages, TRUE) : FollowedByResult(messages, i)
    /\ Cardinality(AssistantMessages(messages, FALSE))
          = Cardinality(AssistantTurns(window, FALSE, with_errors))

\* C23 as claimed: in the model input built from history every assistant turn
\* with exactly one citation is an assistant message with one tool call followed
\* by the tool-result message of the same tool_call_id, and every assistant turn
\* with zero or several citations is one plain-text assistant message.
C23_HistoryTranslation ==
    \A r \in Sequential :
        req[r].pc = "first_call" =>
            Translated(req[r].messages, recent_history(req[r].chat_history), TRUE)

\* C23 as amended: the same, for every assistant turn of the window but the
\* error turns ("Error processing request: ..."), which contribute no message.
C23_HistoryTranslationButErrors ==
    \A r \in Sequential :
        req[r].pc = "first_call" =>
            Translated(req[r].messages, recent_history(req[r].chat_history), FALSE)

\* the model input of a request whose history holds a turn with one citation,
\* re-expanded
C23_Witness ==
    \E r \in Sequential :
        /\ req[r].pc = "first_call"
        /\ AssistantTurns(recent_history(req[r].chat_history), TRUE, FALSE) # {}
        /\ AssistantMessages(req[r].messages, TRUE) # {}

-----------------------------------------------------------------------------
(* The agent loop with the tool calls a model can ask for *)

\* the lists of tool calls of a model that also asks for a table, sends
\* arguments that are not JSON, or names a tool of the discovered catalog that
\* the dispatch of the chat service does not know
ToolBatches ==
    { NominalBatch, <<TableCall>>, <<TableCall, TableCall>>, <<NominalCall, TableCall>>,
      <<BadJsonCall, NominalCall>>, <<UnknownToolCall, NominalCall>> }

\* The last request of a run, a chat turn of a session with an empty
\* conversation and a model configured.
InitAgent ==
    /\ conversations_col = <<new_conversation(1)>>
    /\ conversation_archives = <<>>
    /\ n_archives = 0
    /\ cookie = [c \in Clients |-> 1]
    /\ use_openai = TRUE
    /\ req = [r \in Reqs |-> IdleReq]
    /\ call_history = <<>>
    /\ n_requests = MaxRequests - 1
    /\ clock = 1
    /\ n_calls = 0
    /\ n_variations = 0

NextAgent ==
    \/ \E r \in Sequential, c \in Clients, prompt \in Prompts : chat_start(r, c, prompt)
    \/ \E r \in Sequential : first_completion(r, ToolBatches)
    \/ \E r \in Sequential, from_server \in DispatchResults : execute_tool(r, from_server)
    \/ \E r \in Sequential : follow_up_completion(r, ToolBatches)
    \/ \E r \in Sequential : max_rounds_completion(r)
    \/ \E r \in Sequential : final_completion(r)
    \/ \E r \in Sequential, write_ok \in BOOLEAN : answer(r, write_ok)
    \/ \E r \in Sequential, write_ok \in BOOLEAN : handle_exception(r, write_ok)

AgentSpec == InitAgent /\ [][NextAgent]_vars

-----------------------------------------------------------------------------
(* C24: response_data for a citation in any position *)

\* a citation of the prefixes tool that asked for a table, csv or dataframe
AsksFormat(citation) ==
    /\ citation.tool = PrefixesTool
    /\ is_dict(citation.args)
    /\ Get(citation.args, "format", "json") \in {"csv", "table", "dataframe"}

\* the tool log holds a successful result of the prefixes tool for the
\* location of the citation
HoldsSuccessfulResult(tool_history, citation) ==
    \E k \in 1..Len(tool_history) :
        /\ tool_history[k].tool = PrefixesTool
        /\ Get(tool_history[k].args, "location_name", PyNone)
              = Get(citation.args, "location_name", "")
        /\ Get(tool_history[k].result, "success", FALSE)

\* C24: a turn one of whose citations asked the prefixes tool for a table, csv
\* or dataframe, while the tool log holds a successful result for the location
\* of that citation, is answered with a response_data payload, wherever the
\* citation stands among the citations of the turn.
C24_EnrichmentAnyPosition ==
    \A r \in Sequential :
        (req[r].pc = "done" /\ req[r].response.success) =>
            ((\E j \in 1..Len(req[r].response.citations) :
                  /\ AsksFormat(req[r].response.citations[j])
                  /\ HoldsSuccessfulResult(req[r].tool_history,
                                           req[r].response.citations[j]))
                => req[r].response.data # NoPayload)

-----------------------------------------------------------------------------
(* C25: response_data is built from what the turn already holds *)

\* the step from the end of the agent loop to the success response, in which
\* response_data is built
Enriched(r) == req[r].pc = "persist" /\ req'[r].pc = "done"

\* C25: the step that builds response_data dispatches no tool call and leaves
\* the tool log, the citations and the assistant text as the agent loop left
\* them, whether it builds a payload or not.
C25_EnrichmentIsPassive ==
    [][\A r \in Sequential :
          Enriched(r) =>
              /\ call_history' = call_history
              /\ n_calls' = n_calls
              /\ req'[r].tool_history = req[r].tool_history
              /\ req'[r].response.citations = req[r].citations
              /\ Last(req'[r].response.chat_history).citations = req[r].citations
              /\ req[r].assistant_response # PyNone =>
                    /\ req'[r].response.response = req[r].assistant_response
                    /\ Last(req'[r].response.chat_history).text
                          = req[r].assistant_response]_vars

\* a turn answered with a payload after two calls, both of them dispatched in
\* the agent loop
C25_Witness ==
    \E r \in Sequential :
        /\ req[r].pc = "done"
        /\ req[r].response.success
        /\ req[r].response.data # NoPayload
        /\ Len(NewEntries(req[r])) = 2
        /\ Len(call_history) = 2

-----------------------------------------------------------------------------
(* The responder on messages that meet several tests of the decision tree:
   the second run is on a help request without a domain keyword *)

HelpWithThis == "can you help with this"
PriorityMessages ==
    {HelpWithThis, "show that as a table", "help with prefixes",
     "Show me prefixes at Branch Office 3 as a table", "prefixes at the office"}

InitPriority ==
    /\ conversations_col = <<>>
    /\ conversation_archives = <<>>
    /\ n_archives = 0
    /\ cookie = [c \in Clients |-> NoCookie]
    /\ use_openai = FALSE
    /\ req \in [Reqs -> [pc : {"idle"}, message : PriorityMessages,
                          conversation_history : {<<>>, BranchOfficeHistory}]]
    /\ req[2].message = HelpWithThis
    /\ call_history = <<>>
    /\ n_requests = 0
    /\ clock = 0
    /\ n_calls = 0
    /\ n_variations = 0

PrioritySpec == InitPriority /\ [][NextFallback]_vars

-----------------------------------------------------------------------------
(* C26: the priority order of the decision tree *)

HasDomainWord(q) == any_in(DomainWords, lower(q.message))

\* the test of the follow-up branch: a history, a follow-up word in the
\* message and network context in the history
FollowUpApplies(q) ==
    /\ q.conversation_history # <<>>
    /\ any_in(follow_up_indicators, lower(q.message))
    /\ any_in({"prefix", "network", "branch office"},
              lower(join(" ", texts(q.conversation_history))))

\* C26: a message without a domain keyword takes the general-conversation
\* branch whatever else it holds and whatever the history; a message with a
\* domain keyword that meets the follow-up test takes the follow-up branch,
\* before the network-query and help tests; the general-conversation and help
\* branches call no tool and return no citation.
C26_PriorityOrder ==
    \A r \in FallbackRuns :
        /\ ~HasDomainWord(req[r]) => req[r].branch = "general"
        /\ (HasDomainWord(req[r]) /\ FollowUpApplies(req[r]))
              => req[r].branch = "follow_up"
        /\ req[r].branch \in {"general", "help"}
              => (req[r].calls = <<>> /\ req[r].citations = <<>>)

\* a help request with follow-up words after a network question, without a
\* domain keyword, answered as general conversation; and a help request with a
\* domain keyword after the same history, answered as a follow-up
C26_Witness ==
    \E r, r2 \in FallbackRuns :
        /\ req[r].message = HelpWithThis
        /\ any_in(HelpWords, lower(req[r].message))
        /\ FollowUpApplies(req[r])
        /\ req[r].branch = "general"
        /\ req[r].calls = <<>>
        /\ req[r2].message = "help with prefixes"
        /\ FollowUpApplies(req[r2])
        /\ req[r2].branch = "follow_up"

-----------------------------------------------------------------------------
(* C27: tool calls with arguments that are not JSON *)

\* the argument texts that json.loads rejects
NotJson == {ArgBad}

\* the tool call the agent loop of request r is about to execute
CurrentCall(r) == req[r].tool_calls[req[r].i]

\* the step of the agent loop that executes the current tool call of r
Executes(r) == req[r].pc = "exec" /\ req'[r] # req[r]

\* C27: a tool call whose arguments are not JSON does not fail the turn: it is
\* executed with the empty mapping as arguments (dispatched, when the tool is
\* one the chat service knows), appended to the tool log and to the citations
\* with empty args, its result is appended to the messages for the model under
\* the id of the call, and the loop goes on to the next call of the round.
C27_BadArgumentsNotFatal ==
    [][\A r \in Sequential :
          (Executes(r) /\ CurrentCall(r).arguments \in NotJson) =>
              /\ req'[r].pc # "fail"
              /\ Len(req'[r].tool_history) = Len(req[r].tool_history) + 1
              /\ Last(req'[r].tool_history).tool = CurrentCall(r).name
              /\ Last(req'[r].tool_history).args = <<>>
              /\ req'[r].citations =
                    Append(req[r].citations,
                           [tool |-> CurrentCall(r).name, args |-> <<>>,
                            round |-> req[r].tool_call_round])
              /\ req'[r].messages =
                    Append(req[r].messages,
                           [role |-> "tool", tool_call_id |-> CurrentCall(r).id,
                            content |-> json_dumps(Last(req'[r].tool_history).result)])
              /\ CurrentCall(r).name \in hard_coded_tools =>
                    /\ Len(call_history') = Len(call_history) + 1
                    /\ Last(call_history').tool_name = CurrentCall(r).name
                    /\ Last(call_history').args = <<>>
              /\ req[r].i < Len(req[r].tool_calls) =>
                    (req'[r].pc = "exec" /\ req'[r].i = req[r].i + 1)]_vars

\* a turn answered after a round of two calls, the first with arguments that
\* are not JSON: both are in the tool log and cited
C27_Witness ==
    \E r \in Sequential :
        /\ req[r].pc = "done"
        /\ req[r].response.success
        /\ Len(req[r].response.citations) = 2
        /\ req[r].response.citations[1].args = <<>>
        /\ req[r].response.citations[2].args = [location_name |-> "BRCN"]
        /\ NewEntries(req[r])[1].args = <<>>
        /\ NewEntries(req[r])[1].round = NewEntries(req[r])[2].round
        /\ Len(call_history) = 2

-----------------------------------------------------------------------------
(* C28: tools the chat service does not know *)

\* "Available tools: ..." of the system prompt names get_locations, which
\* execute_tool_with_status has no branch for
UnknownToolResult(name) == [error |-> "Unknown tool " \o name]

\* C28: a tool call whose name is none of the five names the chat service
\* dispatches is not sent to the tool server; its result is the error
\* "Unknown tool <name>", which is appended to the tool log with a citation and
\* fed back to the model, and the loop goes on.
C28_UnknownToolNotSent ==
    [][\A r \in Sequential :
          (Executes(r) /\ CurrentCall(r).name \notin hard_coded_tools) =>
              /\ call_history' = call_history
              /\ req'[r].tool_history =
                    Append(req[r].tool_history,
                           [tool |-> CurrentCall(r).name,
                            args |-> parse_arguments(CurrentCall(r).arguments),
                            result |-> UnknownToolResult(CurrentCall(r).name),
                            round |-> req[r].tool_call_round,
                            tool_index |-> req[r].i])
              /\ req'[r].citations =
                    Append(req[r].citations,
                           [tool |-> CurrentCall(r).name,
                            args |-> parse_arguments(CurrentCall(r).arguments),
                            round |-> req[r].tool_call_round])
              /\ Last(req'[r].messages).role = "tool"
              /\ Last(req'[r].messages).tool_call_id = CurrentCall(r).id
              /\ req'[r].pc = IF req[r].i < Len(req[r].tool_calls) THEN "exec"
                              ELSE IF req[r].tool_call_round < max_tool_rounds
                              THEN "follow_up" ELSE "final_max"]_vars

\* a turn answered after a round that asked for get_locations and for
\* prefixes: both are cited, one call was sent to the tool server
C28_Witness ==
    \E r \in Sequential :
        /\ req[r].pc = "done"
        /\ req[r].response.success
        /\ Len(req[r].response.citations) = 2
        /\ req[r].response.citations[1].tool = LocationsTool
        /\ NewEntries(req[r])[1].result = UnknownToolResult(LocationsTool)
        /\ NewEntries(req[r])[2].tool = PrefixesTool
        /\ Len(call_history) = 1
        /\ call_history[1].tool_name = PrefixesTool

-----------------------------------------------------------------------------
(* C29: the archive of new-chat and the new session id *)

\* the archives keep the session id they were inserted with
ArchivesKeepSession ==
    \A i \in 1..Len(conversation_archives), j \in 1..Len(conversation_archives') :
        conversation_archives[i]._id = conversation_archives'[j]._id
            => conversation_archives[i].session_id = conversation_archives'[j].session_id

\* the step of new-chat for client c that inserted an archive
NewChatArchived(c) ==
    /\ new_chat(c)
    /\ Len(conversation_archives') = Len(conversation_archives) + 1

\* the accessors, called with session id sid, neither return nor delete the
\* archive
OutOfReach(archives, archive, sid) ==
    /\ \A k \in 1..Len(list_archives(archives, sid)) :
            list_archives(archives, sid)[k]._id # archive._id
    /\ find_archive(archives, archive._id, sid) = 0
    /\ delete_one(archives, archive._id, sid) = archives

\* C29: an archive keeps the session id that was current when it was inserted;
\* the archive a new-chat request inserts is under the old session id, and
\* list, get and delete called with the session id that this new-chat set in
\* the cookie neither return nor delete it.
C29_ArchiveOutOfReachOfNewSession ==
    [][/\ ArchivesKeepSession
       /\ \A c \in Clients :
             NewChatArchived(c) =>
                 /\ Last(conversation_archives').session_id = cookie[c]
                 /\ OutOfReach(conversation_archives', Last(conversation_archives'),
                               cookie'[c])]_vars

-----------------------------------------------------------------------------
(* A clear request served while a chat request of the session is in flight *)

\* the conversation of session 1 after one turn with one tool call
EarlierTurn ==
    << [role |-> "user", text |-> "hi"],
       [role |-> "assistant", text |-> NominalContent,
        citations |-> <<citation_entry(PrefixesTool, [location_name |-> "BRCN"], 1)>>] >>
EarlierTools ==
    << persisted_entry(PrefixesTool, [location_name |-> "BRCN"], PrefixPayload, 1, 1) >>

\* The last three requests of a run: a chat request and two clear requests of
\* the client of session 1, served by the threads of the server; the store
\* write of the chat request succeeds.
InitClearRace ==
    /\ conversations_col =
          <<[session_id |-> 1, messages |-> EarlierTurn, tools |-> EarlierTools]>>
    /\ conversation_archives = <<>>
    /\ n_archives = 0
    /\ cookie = [c \in Clients |-> 1]
    /\ use_openai = TRUE
    /\ req = [r \in Reqs |-> IdleReq]
    /\ call_history = <<>>
    /\ n_requests = MaxRequests - 3
    /\ clock = 1
    /\ n_calls = 0
    /\ n_variations = 0

NextClearRace ==
    \/ \E c \in Clients : clear_chat(c)
    \/ \E r \in Sequential, c \in Clients :
            req[r].pc = "idle" /\ chat_start(r, c, "again")
    \/ \E r \in Sequential : first_completion(r, {NominalBatch})
    \/ \E r \in Sequential, from_server \in DispatchResults : execute_tool(r, from_server)
    \/ \E r \in Sequential : follow_up_completion(r, {})
    \/ \E r \in Sequential : final_completion(r)
    \/ \E r \in Sequential : answer(r, TRUE)
    \/ \E r \in Sequential : handle_exception(r, TRUE)

ClearRaceSpec == InitClearRace /\ [][NextClearRace]_vars

-----------------------------------------------------------------------------
(* C30: a clear that runs during a chat request is undone *)

\* the conversation the request read has been archived and emptied since
ClearedInFlight(r) ==
    /\ req[r].pc \in InFlight
    /\ req[r].loaded_messages > 0
    /\ PersistedMessages(req[r].session_id) = <<>>
    /\ conversation_archives # <<>>
    /\ Last(conversation_archives).messages = LoadedTurns(req[r], req[r].chat_history)

\* C30: when a clear archived and emptied the conversation between the read
\* and the write of a chat request, the write of the request puts the archived
\* turns and tool invocations back into the live conversation, followed by
\* the turns and tool invocations of the request (a later clear then archives
\* them again: the witness).
C30_ClearUndone ==
    [][\A r \in Sequential :
          (TurnEnded(r) /\ ClearedInFlight(r)) =>
              /\ conversations_col'[find_one(conversations_col', req[r].session_id)].messages
                    = Last(conversation_archives).messages
                        \o SubSeq(req'[r].response.chat_history,
                                  req[r].loaded_messages + 1,
                                  Len(req'[r].response.chat_history))
              /\ conversations_col'[find_one(conversations_col', req[r].session_id)].tools
                    = Last(conversation_archives).tools \o NewEntries(req[r])
              /\ Len(req'[r].response.chat_history) = req[r].loaded_messages + 2]_vars

\* both clears and the chat request done: the second archive holds the turns
\* and the tool invocation of the first archive again, followed by those of
\* the request
C30_Witness ==
    /\ req[1].pc = "done"
    /\ req[1].response.success
    /\ Len(conversation_archives) = 2
    /\ conversation_archives[1].messages = EarlierTurn
    /\ conversation_archives[1].tools = EarlierTools
    /\ SubSeq(conversation_archives[2].messages, 1, 2) = EarlierTurn
    /\ Len(conversation_archives[2].messages) = 4
    /\ conversation_archives[2].tools = EarlierTools \o NewEntries(req[1])
    /\ NewEntries(req[1]) # <<>>
    /\ PersistedMessages(1) = <<>>

=============================================================================
